---------------------------- MODULE Spec2Model ----------------------------
(***************************************************************************)
(* A model of the Ozon synchronisation engine of MirOptStats:              *)
(*   - the report store (ozon/services/reporting.py),                      *)
(*   - the window aggregators (ozon/services/orders_sync.py),              *)
(*   - the per-shop pipeline (ozon/tasks.py) with its sync jobs and the    *)
(*     merge into the canonical "monitor" report                           *)
(*     (ozon/services/monitor_sync.py, extra_sync.py, old_year_sync.py).   *)
(*                                                                         *)
(* Stored values are modelled as strings; "" stands for every falsy Python *)
(* value (None, "", 0) where the code only tests truthiness.               *)
(***************************************************************************)
EXTENDS Integers, Sequences, FiniteSets, TLC

VARIABLES
    rows,        \* OzonReportRow table: [report code -> [row_key -> [data, sort_key]]]
    columns,     \* OzonReportColumn table: [report code -> [key -> <<label, order, data_type>>]]
    lastUpd,     \* store calls: the `rows` argument of the last upsert_rows call
    before,      \* store calls: the rows of the report before the last upsert_rows call
    sameAsPrev,  \* store calls: the last call repeated the argument of the call before it
    expect,      \* store calls: per row_key, the columns written so far, last writer per key
    anchor,      \* aggregation: the time of the run, in hours UTC (run_started / datetime.now)
    nEvents,     \* aggregation: postings consumed so far by the aggregation loops
    fbo,         \* aggregation: the accumulators of _aggregate_fbo
    fbs,         \* aggregation: the accumulators of _aggregate_fbs
    byOffer,     \* aggregation: the result dict of _aggregate_by_offer
    refPeriod,   \* aggregation: per period length and entity, the quantity inside the day window
    refDaily,    \* aggregation: per entity and calendar day of the window, the quantity of that day
    refDelivered, \* aggregation: per period length and entity, the delivered quantity inside the day window
    lastSkipped, \* aggregation: the timestamp of the last posting consumed is one no format accepts
    pipe,        \* pipeline: "idle", "running", "done", "aborted" (an exception left sync_shop), "skipped"
    order,       \* pipeline: the jobs of the run, in call order
    jobIdx,      \* pipeline: position in `order` of the job that runs
    phase,       \* pipeline: "start", "fetch" or "commit" inside the job
    page,        \* pipeline: number of the request the job is at (stage of sync_monitor)
    fetched,     \* pipeline: the items the job has fetched
    dev,         \* pipeline: API responses of the run that were not the nominal one
    api,         \* pipeline: the responses of the API so far, per job and request, when replayed
    replay,      \* pipeline: whether the responses are recorded for a second run
    started,     \* pipeline: the jobs entered
    finished,    \* pipeline: the jobs that returned
    raisedIn,    \* pipeline: the job an exception escaped from, or ""
    jobStart,    \* pipeline: rows and columns of the store when the current job was entered
    catalogRows, \* pipeline: the monitor rows when sync_monitor returned
    writers,     \* pipeline: per column key of the monitor report, who wrote it
    syncLog,     \* pipeline: the rows of the OzonSyncLog table
    runNo,       \* pipeline: 1 for the run, 2 for the same run replayed in another job order
    firstRun,    \* pipeline: rows and columns of the store at the end of run 1
    clock,       \* clock: the wall clock, in hours UTC
    events,      \* clock: the postings the upstream returns to each call
    callNo,      \* clock: the number of the call of the order jobs that runs
    callStep,    \* clock: "idle", "fetching" (between the job's clock read and the aggregation) or "done"
    runStarted,  \* clock: per call, the clock read at the top of the job (run_started_utc / now_msk)
    outs,        \* clock: per call, what the aggregators and the job computed
    fetcher,     \* pagination: the paginated fetch that runs
    cursor,      \* pagination: the last_id the next request carries
    offset,      \* pagination: the offset the next request carries
    month,       \* pagination: the month range _collect_fbo_postings is at
    reqs,        \* pagination: the requests issued so far
    resps,       \* pagination: the pages the upstream answered with
    items,       \* pagination: the items list of the fetch
    pState,      \* pagination: "idle", "running" or "returned"
    client,      \* retry: the HTTP wrapper in use
    batchNo,     \* retry: the page/batch request of the job the client is at
    attempts,    \* retry: attempts made so far for the request of lastResp
    lastResp,    \* retry: the outcome of the last attempt
    got,         \* retry: per page/batch finished, "items" or "empty"
    rState,      \* retry: "idle", "running", "returned" (the job went on to write) or "raised"
    poller,      \* report: the code that waits for the file report
    statuses,    \* report: the answers of info(code) so far
    elapsed,     \* report: time since the first poll, in poll intervals
    pollState,   \* report: "idle", "polling", "got_file", "failed" or "no_data"
    idByCell,    \* fan-out: per sheet cell, the cluster id read from it, 0 for None
    fanHasField, \* fan-out: "" before the packed query, then "yes"/"no": its items carry cluster_id
    fanQueries,  \* fan-out: the get_stocks_data calls made so far, with their cluster_ids
    fanPending,  \* fan-out: the tasks of the fallback whose query has not been made
    fanBlocks,   \* fan-out: per cell, where its parameter block came from
    fanState,    \* fan-out: "idle", "start", "fallback" or "done"
    slotTable,   \* slots: the OzonClusterSlot rows of the shop, code -> cluster_id
    slotFirst,   \* slots: per code, the cluster id of its first row
    slotReturned, \* slots: the dict the last call of _get_cluster_slot_map returned
    slotCodes,   \* slots: the codes argument of the last call
    slotCalls,   \* slots: number of calls made
    catRuns,     \* catalog: number of sync_monitor runs entered
    catStage,    \* catalog: "idle", or "listed" between stage 1 and stage 2 of sync_monitor
    catProducts, \* catalog: the product list the upstream returned to the run
    chunkFn,     \* chunks: the client call that sends an identifier list
    chunkIds,    \* chunks: the identifier list passed to it
    chunkSent,   \* chunks: the identifier arrays of the requests sent so far
    chunkState,  \* chunks: "idle", "sending" or "returned"
    racePc,      \* parallel jobs: per worker, where its upsert_rows call is
    raceSnap,    \* parallel jobs: per worker, the rows its call read (`existing`)
    raceUpd      \* parallel jobs: per worker, the rows argument of its call

storeVars == <<rows, columns>>
callVars == <<lastUpd, before, sameAsPrev, expect>>
aggVars == <<anchor, nEvents, fbo, fbs, byOffer, refPeriod, refDaily, refDelivered, lastSkipped>>
pipeVars == <<pipe, order, jobIdx, phase, page, fetched, dev, api, replay, started, finished,
              raisedIn, jobStart, catalogRows, writers, syncLog, runNo, firstRun>>
clockVars == <<clock, events, callNo, callStep, runStarted, outs>>
pageVars == <<fetcher, cursor, offset, month, reqs, resps, items, pState>>
retryVars == <<client, batchNo, attempts, lastResp, got, rState>>
pollVars == <<poller, statuses, elapsed, pollState>>
fanVars == <<idByCell, fanHasField, fanQueries, fanPending, fanBlocks, fanState>>
slotVars == <<slotTable, slotFirst, slotReturned, slotCodes, slotCalls>>
catVars == <<catRuns, catStage, catProducts>>
chunkVars == <<chunkFn, chunkIds, chunkSent, chunkState>>
raceVars == <<racePc, raceSnap, raceUpd>>
lateVars == <<fanVars, slotVars, catVars, chunkVars, raceVars>>
nonStoreVars == <<callVars, aggVars, pipeVars, clockVars, pageVars, retryVars, pollVars>>
oldVars == <<storeVars, nonStoreVars>>
notFanVars == <<oldVars, slotVars, catVars, chunkVars, raceVars>>
notSlotVars == <<oldVars, fanVars, catVars, chunkVars, raceVars>>
notCatVars == <<nonStoreVars, fanVars, slotVars, chunkVars, raceVars>>
notChunkVars == <<oldVars, fanVars, slotVars, catVars, raceVars>>
notRaceVars == <<nonStoreVars, fanVars, slotVars, catVars, chunkVars>>
extVars == <<clockVars, pageVars, retryVars, pollVars, lateVars>>
vars == <<storeVars, callVars, aggVars, pipeVars, extVars>>

(***************************************************************************)
(* Report store                                                            *)
(***************************************************************************)

\* A dict with no keys.
EmptyMap == [k \in {} |-> ""]

\* Every dict with keys in D and values in V.
Dicts(D, V) == UNION {[S -> V] : S \in SUBSET D}

\* Python truthiness of a stored value.
Truthy(v) == v # ""

\* get_or_create_report: the report exists afterwards, rows and columns kept.
get_or_create_report(table, code) ==
    IF code \in DOMAIN table
    THEN table
    ELSE [c \in DOMAIN table \cup {code} |-> IF c = code THEN EmptyMap ELSE table[c]]

\* A row replaced by the update instead of merged with it.
MergeData_replace(old, new) == new

\* Values of a key present on both sides are added up instead of overwritten.
MergeData_accumulate(old, new) ==
    [k \in DOMAIN old \cup DOMAIN new |->
        IF k \in DOMAIN new /\ k \in DOMAIN old THEN old[k] \o new[k]
        ELSE IF k \in DOMAIN new THEN new[k] ELSE old[k]]

\* {**row.data, **data}
MergeData(old, new) ==
    [k \in DOMAIN old \cup DOMAIN new |-> IF k \in DOMAIN new THEN new[k] ELSE old[k]]

\* The existing row takes the sort_key of the update whenever the update has one.
UpdatedRow_take_supplied(row, data) ==
    [data |-> MergeData(row.data, data),
     sort_key |-> IF "sort_key" \in DOMAIN data THEN data["sort_key"] ELSE row.sort_key]

\* The existing-row branch of upsert_rows.
UpdatedRow(row, data) ==
    [data |-> MergeData(row.data, data),
     sort_key |-> IF "sort_key" \in DOMAIN data /\ Truthy(data["sort_key"])
                  THEN data["sort_key"] ELSE row.sort_key]

\* The new-row branch of upsert_rows.
CreatedRow(data) ==
    [data |-> data,
     sort_key |-> IF "sort_key" \in DOMAIN data THEN data["sort_key"] ELSE ""]

\* The report is synchronised with the argument: a row the argument does not
\* name is deleted.
upsert_rows_sync(existing, upd) ==
    [rk \in DOMAIN upd |->
        IF rk \in DOMAIN existing THEN UpdatedRow(existing[rk], upd[rk])
        ELSE CreatedRow(upd[rk])]

\* upsert_rows(report, rows): `existing` are the report's rows, `upd` the argument.
upsert_rows(existing, upd) ==
    [rk \in DOMAIN existing \cup DOMAIN upd |->
        IF rk \notin DOMAIN upd THEN existing[rk]
        ELSE IF rk \in DOMAIN existing THEN UpdatedRow(existing[rk], upd[rk])
        ELSE CreatedRow(upd[rk])]

(***************************************************************************)
(* Window aggregators (orders_sync.py)                                     *)
(*                                                                         *)
(* A time is a number of hours since an epoch, in UTC; a calendar date is  *)
(* a day number. A posting carries one product line.                       *)
(***************************************************************************)

DAYS_WINDOW == 28
PERIOD_COLUMNS_FBO == ("FY" :> 7) @@ ("GA" :> 14) @@ ("GC" :> 28) @@ ("GE" :> 60) @@ ("GG" :> 90)
DELIVERED_COLUMNS_FBO == ("GO" :> 30) @@ ("GP" :> 60) @@ ("GQ" :> 90)
PERIOD_COLUMNS_FBS == (7 :> "FZ") @@ (14 :> "GB") @@ (28 :> "GD") @@ (60 :> "GF") @@ (90 :> "GH")
DELIVERED_COLUMNS_FBS == (30 :> "GR") @@ (60 :> "GS") @@ (90 :> "GT")

\* dict.get(key, default)
Get(d, k, default) == IF k \in DOMAIN d THEN d[k] ELSE default

\* d with d[k] = v
Put(d, k, v) == [x \in DOMAIN d \cup {k} |-> IF x = k THEN v ELSE d[x]]

\* astimezone(MSK_TZ): Europe/Moscow is UTC+3 the year round.
ToMsk(t) == t + 3

\* datetime.date() of a time already in the zone wanted.
DateOf(t) == t \div 24

\* strftime("%d.%m"): day and month without the year, the same label one year on
\* (a year of 365 days).
DayMonth(date) == date % 365

\* A parser that reads a time out of every string.
ParseUtc_lenient(ts) == <<ts.t>>

\* datetime.strptime / fromisoformat of the timestamp string: a UTC time, or
\* nothing for a string no format accepts.
ParseUtc(ts) == IF ts.fmt = "iso_z" THEN <<ts.t>> ELSE <<>>

\* _to_msk_dt
_to_msk_dt(ts) == IF ParseUtc(ts) = <<>> THEN <<>> ELSE <<ToMsk(ParseUtc(ts)[1])>>

\* The window without its oldest day shifted by one: today is left out.
_build_date_headers_shifted(base_msk_dt, days) ==
    [i \in 1..days |-> DateOf(base_msk_dt) - (days - i) - 1]

\* _build_date_headers: the date keys, oldest first ("%d.%m.%Y" names one date).
_build_date_headers(base_msk_dt, days) ==
    [i \in 1..days |-> DateOf(base_msk_dt) - (days - i)]

\* str.lower() on the status values of the universe.
Lower(s) == IF s = "Delivered" THEN "delivered" ELSE s

\* [0] * DAYS_WINDOW
ZeroDays == [i \in 1..DAYS_WINDOW |-> 0]

\* One pass of the loop of _aggregate_fbo over posting p.
_aggregate_fbo(acc, p, run_started_msk) ==
    LET date_keys == _build_date_headers(run_started_msk, DAYS_WINDOW)
        today_msk == DateOf(run_started_msk)
        dt_msk == _to_msk_dt(p.in_process_at)
        d_msk == DateOf(dt_msk[1])
        idxs == {i \in 1..DAYS_WINDOW : date_keys[i] = d_msk}
        offer_id == p.offer_id
        qty == p.quantity
        delta_days == today_msk - d_msk
        row == Get(acc.day_counts_by_offer, offer_id, ZeroDays)
        add(cols, counts) ==
            [c \in DOMAIN cols |->
                IF delta_days <= cols[c] - 1
                THEN Put(counts[c], offer_id, Get(counts[c], offer_id, 0) + qty)
                ELSE counts[c]]
    IN IF dt_msk = <<>> \/ offer_id = "" THEN acc
       ELSE [day_counts_by_offer |->
                Put(acc.day_counts_by_offer, offer_id,
                    [i \in 1..DAYS_WINDOW |-> IF i \in idxs THEN row[i] + qty ELSE row[i]]),
             period_counts_by_col |->
                IF 0 <= delta_days /\ delta_days <= 365
                THEN add(PERIOD_COLUMNS_FBO, acc.period_counts_by_col)
                ELSE acc.period_counts_by_col,
             delivered_counts_by_col |->
                IF 0 <= delta_days /\ delta_days <= 365 /\ Lower(p.status) = "delivered"
                THEN add(DELIVERED_COLUMNS_FBO, acc.delivered_counts_by_col)
                ELSE acc.delivered_counts_by_col]

\* _prepare_fbs_orders on one order: the prepared order, or nothing when the
\* timestamp does not parse.
_prepare_fbs_orders(o) ==
    IF ParseUtc(o.in_process_at) = <<>> THEN <<>>
    ELSE <<[msk_dt |-> ToMsk(ParseUtc(o.in_process_at)[1]),
            date_key |-> DayMonth(DateOf(ToMsk(ParseUtc(o.in_process_at)[1]))),
            status |-> o.status,
            offer_id |-> o.offer_id,
            quantity |-> o.quantity,
            total_qty |-> o.quantity]>>

\* One pass of the loop of _aggregate_fbs over prepared order o; now_msk is the
\* clock read at the top of the function.
_aggregate_fbs(acc, o, now_msk) ==
    LET now0 == DateOf(now_msk) * 24
        starts(d) == now0 - (d - 1) * 24
        end == now0 + 24
        offer_id == o.offer_id
        qty == o.quantity
        add(periods, totals) ==
            [d \in DOMAIN periods |->
                IF starts(d) <= o.msk_dt /\ o.msk_dt < end
                THEN Put(totals[d], offer_id, Get(totals[d], offer_id, 0) + qty)
                ELSE totals[d]]
        by_day == Get(acc.daily_by_offer, offer_id, EmptyMap)
    IN IF offer_id = ""
       THEN [acc EXCEPT !.daily_total = Put(@, o.date_key, Get(@, o.date_key, 0) + o.total_qty)]
       ELSE [daily_total |->
                Put(acc.daily_total, o.date_key, Get(acc.daily_total, o.date_key, 0) + o.total_qty),
             daily_by_offer |->
                Put(acc.daily_by_offer, offer_id,
                    Put(by_day, o.date_key, Get(by_day, o.date_key, 0) + qty)),
             totals_by_period |-> add(PERIOD_COLUMNS_FBS, acc.totals_by_period),
             delivered_by_period |->
                IF o.status = "delivered"
                THEN add(DELIVERED_COLUMNS_FBS, acc.delivered_by_period)
                ELSE acc.delivered_by_period]

\* The days_windows argument of both callers of _aggregate_by_offer.
DaysWindows == {7, 14, 28, 60, 90}

\* One pass of the loop of _aggregate_by_offer over posting p; now is the UTC
\* clock read at the top of the function. created_at is absent, so the time is
\* in_process_at.
_aggregate_by_offer(result, p, now) ==
    LET dt == ParseUtc(p.in_process_at)
        offer_id == p.offer_id
        rec == Get(result, offer_id, [d \in DaysWindows |-> 0])
        qty == IF p.quantity = 0 THEN 1 ELSE p.quantity
    IN IF dt = <<>> \/ offer_id = "" THEN result
       ELSE Put(result, offer_id,
                [d \in DaysWindows |-> IF dt[1] >= now - d * 24 THEN rec[d] + qty ELSE rec[d]])

(***************************************************************************)
(* Column names (monitor_sync.py)                                          *)
(***************************************************************************)

Letters == <<"A", "B", "C", "D", "E", "F", "G", "H", "I", "J", "K", "L", "M",
             "N", "O", "P", "Q", "R", "S", "T", "U", "V", "W", "X", "Y", "Z">>

RECURSIVE _index_to_col(_)
_index_to_col(idx) ==
    LET n == idx + 1
        q == (n - 1) \div 26
        r == (n - 1) % 26
    IN IF q > 0 THEN _index_to_col(q - 1) \o Letters[r + 1] ELSE Letters[r + 1]

\* _col_to_index on names of one or two letters.
_col_to_index(col) == CHOOSE i \in 0..701 : _index_to_col(i) = col

\* _col_range(start, end), as the set of its names.
_col_range(start, end) == {_index_to_col(i) : i \in _col_to_index(start).._col_to_index(end)}

\* _col_range(start, count) of orders_sync.py, as the set of its names.
_col_range_n(start, count) ==
    {_index_to_col(i) : i \in _col_to_index(start)..(_col_to_index(start) + count - 1)}

\* The keys of _monitor_columns().
_monitor_columns ==
    {"A", "B", "C", "D", "E", "K", "L", "M", "N", "O", "P", "Q", "R", "S", "U", "V", "W",
     "X", "Y", "Z", "AA", "BL", "BM", "BN", "BO", "DK", "DL", "DM", "DN", "IT", "IU",
     "IV", "IW", "IX", "IZ", "JA", "JB", "JC", "JD", "JE", "JF", "JG", "HH", "HI", "HJ",
     "HK", "HL", "HM", "HN"}
    \cup _col_range("AC", "DI") \cup _col_range("DS", "ET")
    \cup {"FY", "GA", "GC", "GE", "GG"} \cup {"GO", "GP", "GQ"}
    \cup _col_range("EV", "FW")
    \cup {"FZ", "GB", "GD", "GF", "GH"} \cup {"GR", "GS", "GT"}
    \cup {"GI", "GJ", "GK", "GL", "GM"} \cup {"GU", "GV", "GW"}
    \cup _col_range("HP", "IM")

\* The fields of an OzonReportColumn that ensure_columns compares.
ColumnFields == {"label", "order", "data_type"}

\* `updates`: the fields of an existing column that differ from the definition.
ColumnUpdates(col, def) == {f \in ColumnFields : col[f] # def[f]}

\* col.save(update_fields=updates)
SavedColumn(col, def) ==
    [f \in ColumnFields |-> IF f \in ColumnUpdates(col, def) THEN def[f] ELSE col[f]]

\* The columns of the report are replaced by the definitions given.
ensure_columns_recreate(existing, defs) == defs

\* ensure_columns(report, columns): a column is created when its key is absent,
\* an existing one has the fields that differ saved; no column is removed. The
\* callers pass each key once, so `defs` is a dict by key.
ensure_columns(existing, defs) ==
    [k \in DOMAIN existing \cup DOMAIN defs |->
        IF k \notin DOMAIN defs THEN existing[k]
        ELSE IF k \in DOMAIN existing THEN SavedColumn(existing[k], defs[k])
        ELSE defs[k]]

\* Column definitions for a set of keys, with the key as label and one order and
\* type for all of them.
ColumnDefs(keys) == [k \in keys |-> [label |-> k, order |-> 10, data_type |-> "text"]]

(***************************************************************************)
(* The per-shop pipeline (tasks.py) and its jobs                           *)
(***************************************************************************)

\* The merge is called before the last sync job.
JobOrder_merge_early ==
    <<"sync_monitor", "sync_orders_fbo", "sync_orders_fbs", "sync_orders_fbo_agg",
      "sync_orders_fbs_agg", "sync_orders_fbo_matrix", "sync_orders_fbs_matrix",
      "sync_orders_fbs_list", "sync_clusters", "sync_returns", "sync_storage",
      "sync_price_logistics", "sync_fbo_dynamic", "sync_stocks_analytics",
      "sync_supplies_fbo", "sync_supply_statuses", "sync_stocks_by_cluster",
      "sync_stocks_analytics_full", "sync_supply_statuses_full",
      "sync_orders_fbo_old_year", "merge_monitor_reports", "sync_orders_fbs_old_year">>

\* The calls of sync_shop, in the order of the code.
JobOrder ==
    <<"sync_monitor", "sync_orders_fbo", "sync_orders_fbs", "sync_orders_fbo_agg",
      "sync_orders_fbs_agg", "sync_orders_fbo_matrix", "sync_orders_fbs_matrix",
      "sync_orders_fbs_list", "sync_clusters", "sync_returns", "sync_storage",
      "sync_price_logistics", "sync_fbo_dynamic", "sync_stocks_analytics",
      "sync_supplies_fbo", "sync_supply_statuses", "sync_stocks_by_cluster",
      "sync_stocks_analytics_full", "sync_supply_statuses_full",
      "sync_orders_fbo_old_year", "sync_orders_fbs_old_year", "merge_monitor_reports">>

\* The keys of ORDER_COLUMNS and the sort key of an order row.
OrderKeys ==
    {"posting_number", "order_number", "status", "created_at", "shipment_date",
     "product_name", "sku", "offer_id", "quantity", "price", "sort_key"}

PeriodKeysFbo == DOMAIN PERIOD_COLUMNS_FBO \cup DOMAIN DELIVERED_COLUMNS_FBO
PeriodKeysFbs ==
    {PERIOD_COLUMNS_FBS[d] : d \in DOMAIN PERIOD_COLUMNS_FBS}
        \cup {DELIVERED_COLUMNS_FBS[d] : d \in DOMAIN DELIVERED_COLUMNS_FBS}
SumKeysFbs == {"GI", "GJ", "GK", "GL", "GM", "GU", "GV", "GW"}

\* A job that declares its columns first, fetches, and writes one row per
\* fetched item.
ListJob(code, idCol, keys) ==
    [report |-> code, ensureAt |-> "before", ids |-> "", idsAt |-> "none",
     idsRequired |-> FALSE, emptyReturns |-> FALSE, idCol |-> idCol, keys |-> keys,
     meta |-> EmptyMap]

\* A job that reads its identifiers from the data key `ids` of the monitor rows
\* before it fetches, and returns when there is none.
MonitorIdJob(code, ids, idCol, keys) ==
    [report |-> code, ensureAt |-> "before", ids |-> ids, idsAt |-> "before",
     idsRequired |-> TRUE, emptyReturns |-> FALSE, idCol |-> idCol, keys |-> keys,
     meta |-> EmptyMap]

\* The shape of each sync job after sync_monitor:
\*   report       code of the job's own report
\*   ensureAt     ensure_columns before or after the fetch
\*   ids, idsAt   data key of the monitor rows the identifiers are read from, and
\*                whether that happens before or after the fetch ("" / "none")
\*   idsRequired  the job returns when the identifier list is empty
\*   emptyReturns the job returns when the fetch yields nothing
\*   idCol, keys  the data keys of a written row
\*   meta         the rows written under fixed "__...__" keys (the Russian labels
\*                of the code are transliterated)
JobDef(job) ==
    CASE job = "sync_orders_fbo" -> ListJob("orders_fbo", "posting_number", OrderKeys)
      [] job = "sync_orders_fbs" -> ListJob("orders_fbs", "posting_number", OrderKeys)
      [] job = "sync_orders_fbo_agg" ->
            ListJob("orders_fbo_agg", "offer_id",
                    {"orders_7", "orders_14", "orders_28", "orders_60", "orders_90"})
      [] job = "sync_orders_fbs_agg" ->
            ListJob("orders_fbs_agg", "offer_id",
                    {"orders_7", "orders_14", "orders_28", "orders_60", "orders_90"})
      [] job = "sync_orders_fbo_matrix" ->
            [report |-> "orders_fbo_matrix", ensureAt |-> "after", ids |-> "offer_id",
             idsAt |-> "after", idsRequired |-> TRUE, emptyReturns |-> TRUE,
             idCol |-> "offer_id",
             keys |-> _col_range_n("DS", DAYS_WINDOW) \cup PeriodKeysFbo \cup {"sort_key"},
             meta |-> [m \in {"__row3__"} |->
                        [k \in {"offer_id", "sort_key"} \cup _col_range_n("DS", DAYS_WINDOW)
                                \cup DOMAIN DELIVERED_COLUMNS_FBO |->
                            IF k = "offer_id" THEN "Itogo/periody" ELSE "v"]]]
      [] job = "sync_orders_fbs_matrix" ->
            [report |-> "orders_fbs_matrix", ensureAt |-> "after", ids |-> "offer_id",
             idsAt |-> "after", idsRequired |-> TRUE, emptyReturns |-> TRUE,
             idCol |-> "offer_id",
             keys |-> _col_range_n("EV", DAYS_WINDOW) \cup PeriodKeysFbs \cup SumKeysFbs
                        \cup {"sort_key"},
             meta |-> [m \in {"__row3__"} |->
                        [k \in {"offer_id", "sort_key"} \cup _col_range_n("EV", DAYS_WINDOW)
                                \cup {DELIVERED_COLUMNS_FBS[d] : d \in DOMAIN DELIVERED_COLUMNS_FBS} |->
                            IF k = "offer_id" THEN "Itogo/periody" ELSE "v"]]]
      [] job = "sync_orders_fbs_list" ->
            ListJob("orders_fbs_list", "posting_number",
                    {"status", "offer_id", "quantity", "created_at", "shipment_date",
                     "product_name", "cluster_to", "price", "actions", "sort_key"})
      [] job = "sync_clusters" -> ListJob("clusters", "cluster_id", {"name", "type"})
      [] job = "sync_returns" ->
            ListJob("returns", "return_id",
                    {"offer_id", "sku", "quantity", "status", "reason", "price", "created_at"})
      [] job = "sync_storage" ->
            [ListJob("storage", "sku",
                     {"cost_total", "qty_paid", "forecast_28", "warehouses_count", "note"})
                EXCEPT !.emptyReturns = TRUE]
      [] job = "sync_price_logistics" ->
            MonitorIdJob("price_logistics", "product_id", "product_id", _col_range("HP", "IM"))
      [] job = "sync_fbo_dynamic" ->
            MonitorIdJob("fbo_dynamic", "sku", "sku", {"offer_id", "date", "available"})
      [] job = "sync_stocks_analytics" ->
            MonitorIdJob("stocks_analytics", "sku", "sku", {"offer_id", "available"})
      [] job = "sync_supplies_fbo" ->
            [ListJob("supplies_fbo", "supply_id",
                     {"status", "created_at", "updated_at", "warehouse", "cluster", "items_count"})
                EXCEPT !.emptyReturns = TRUE]
      [] job = "sync_supply_statuses" -> ListJob("supply_statuses", "sku", {"total"})
      [] job = "sync_stocks_by_cluster" ->
            MonitorIdJob("stocks_by_cluster", "sku", "sku", {"offer_id", "name"})
      [] job = "sync_stocks_analytics_full" ->
            MonitorIdJob("stocks_analytics_full", "sku", "sku", _col_range("AC", "DI"))
      [] job = "sync_supply_statuses_full" ->
            [MonitorIdJob("supply_statuses_full", "sku", "sku",
                          {"BP", "BW", "BX", "BY", "BZ", "CA", "CB"})
                EXCEPT !.emptyReturns = TRUE,
                       !.meta = [m \in {"__column_sums__"} |->
                                    [k \in {"sku", "BP", "sort_key", "BW", "BX", "BY", "BZ", "CA", "CB"} |->
                                        IF k = "sku" THEN "Itogo" ELSE "v"]]]
      [] job = "sync_orders_fbo_old_year" ->
            [report |-> "orders_fbo_old_year", ensureAt |-> "before", ids |-> "offer_id",
             idsAt |-> "after", idsRequired |-> FALSE, emptyReturns |-> FALSE,
             idCol |-> "offer_id", keys |-> {"HH", "HJ", "HL", "sort_key"},
             meta |-> [m \in {"__month__", "__range__"} |->
                        [k \in {"offer_id", "HH", "HJ", "HL", "sort_key"} |->
                            IF k = "offer_id"
                            THEN (IF m = "__month__" THEN "Mesyac" ELSE "Period")
                            ELSE "v"]]]
      [] job = "sync_orders_fbs_old_year" ->
            [report |-> "orders_fbs_old_year", ensureAt |-> "before", ids |-> "offer_id",
             idsAt |-> "after", idsRequired |-> FALSE, emptyReturns |-> FALSE,
             idCol |-> "offer_id", keys |-> {"HI", "HK", "HM", "HN", "sort_key"},
             meta |-> [m \in {"__range__"} |->
                        [k \in {"offer_id", "HI", "HK", "HM", "HN", "sort_key"} |->
                            IF k = "offer_id" THEN "Period" ELSE "v"]]]

\* The sync jobs other than the catalog job.
SyncJobs == {JobOrder[i] : i \in 1..Len(JobOrder)} \ {"sync_monitor", "merge_monitor_reports"}

\* The column keys a job declares for its report.
JobColumns(job) ==
    (JobDef(job).keys \cup {JobDef(job).idCol}) \ {"sort_key"}

\* The products of the shop as the API knows them.
P1 == [offer_id |-> "X123", product_id |-> "1", sku |-> "100"]
P2 == [offer_id |-> "", product_id |-> "2", sku |-> "200"]

\* it.get("sku") of the product-info item of a product id.
SkuOf(pid) == IF pid = P1.product_id THEN P1.sku ELSE P2.sku

\* The stages of sync_monitor: the index whose non-emptiness guards the stage
\* ("" for none), the data key that selects the rows written, the keys written,
\* and whether an exception of the request is caught inside the stage.
MonitorStages ==
    <<[guard |-> "", target |-> "list", keys |-> {"B", "L", "sort_key"}, caught |-> FALSE],
      [guard |-> "L", target |-> "L",
       keys |-> {"K", "C", "N", "O", "P", "Y", "D", "M", "A", "JG"}, caught |-> FALSE],
      [guard |-> "K", target |-> "K", keys |-> {"E"}, caught |-> TRUE],
      [guard |-> "L", target |-> "L", keys |-> {"Q", "R", "S"}, caught |-> FALSE],
      [guard |-> "L", target |-> "L", keys |-> {"U", "V", "W", "X"}, caught |-> FALSE],
      [guard |-> "L", target |-> "L", keys |-> {"BL", "BM", "BN", "BO"}, caught |-> FALSE],
      [guard |-> "K", target |-> "K", keys |-> {"IT", "IU", "IV", "IW", "IX"}, caught |-> FALSE],
      [guard |-> "K", target |-> "K", keys |-> {"IZ", "JA", "JB", "JC", "JD"}, caught |-> FALSE],
      [guard |-> "L", target |-> "L", keys |-> {"JE", "JF"}, caught |-> FALSE],
      [guard |-> "L", target |-> "product_id", keys |-> {"AA", "Z"}, caught |-> TRUE]>>

\* r.data.get(key) is truthy
Has(row, key) == key \in DOMAIN row.data /\ Truthy(row.data[key])

\* The row keys of a report whose data carries a truthy value under `key`
\* (the rows behind product_id_to_key, sku_to_key, offer_to_key).
KeysWith(reportRows, key) == {rk \in DOMAIN reportRows : Has(reportRows[rk], key)}

\* The rows stage 1 of sync_monitor writes for a product list.
ProductRows(products) ==
    [rk \in {IF Truthy(p.offer_id) THEN p.offer_id ELSE p.product_id : p \in products} |->
        LET p == CHOOSE q \in products :
                    rk = (IF Truthy(q.offer_id) THEN q.offer_id ELSE q.product_id)
        IN [x \in {"B", "L", "sort_key"} |->
                IF x = "L" THEN p.product_id ELSE p.offer_id]]

\* The rows stage k > 1 of sync_monitor writes when its request returned an
\* item for every identifier asked for.
StageRows(k, reportRows) ==
    [rk \in KeysWith(reportRows, MonitorStages[k].target) |->
        [x \in MonitorStages[k].keys |->
            IF x = "K" THEN SkuOf(reportRows[rk].data["L"]) ELSE "v"]]

\* The identifier list a secondary job reads from the monitor rows:
\* [r.data.get(key) for r in monitor.rows.all() if r.data.get(key)]
MonitorIds(store, key) ==
    IF "monitor" \notin DOMAIN store THEN {}
    ELSE {store["monitor"][rk].data[key] : rk \in KeysWith(store["monitor"], key)}

\* The items of the n-th page a job fetches.
Items(job, n) ==
    IF job = "sync_storage" THEN {"100", "999"}
    ELSE IF job \in {"sync_orders_fbo_agg", "sync_orders_fbs_agg"} THEN {"X123"}
    ELSE IF job = "sync_supply_statuses" THEN {"100"}
    ELSE IF n = 1 THEN {"i1"} ELSE {"i2"}

\* The value a job writes under a key of the row of entity e.
CellValue(job, store, e, k) ==
    IF k = JobDef(job).idCol THEN e
    ELSE IF job = "sync_orders_fbs_matrix" /\ k \in SumKeysFbs
    THEN IF "orders_fbo_matrix" \in DOMAIN store
            /\ \E rk \in DOMAIN store["orders_fbo_matrix"] :
                    /\ Has(store["orders_fbo_matrix"][rk], "offer_id")
                    /\ store["orders_fbo_matrix"][rk].data["offer_id"] = e
         THEN "v+v" ELSE "0+v"
    ELSE "v"

\* The rows dict a job passes to upsert_rows: one row per entity and the
\* job's fixed rows.
JobRows(job, store, entities) ==
    [rk \in entities \cup DOMAIN JobDef(job).meta |->
        IF rk \in DOMAIN JobDef(job).meta THEN JobDef(job).meta[rk]
        ELSE [k \in JobDef(job).keys \cup {JobDef(job).idCol} |-> CellValue(job, store, rk, k)]]

\* r.row_key.startswith("__"), on the row keys of the model.
IsMetaKey(rk) == rk \in {"__row3__", "__month__", "__range__", "__column_sums__"}

\* The secondary reports merge_monitor_reports folds in, in the order of the
\* code: how the row's identifier is resolved, the keys copied, and the prefix
\* of the rows copied unresolved.
MergeSteps ==
    <<[code |-> "stocks_analytics_full", by |-> "sku", keys |-> _col_range("AC", "DI"), prefix |-> ""],
      [code |-> "supply_statuses_full", by |-> "sku",
       keys |-> {"BP", "BW", "BX", "BY", "BZ", "CA", "CB"}, prefix |-> ""],
      [code |-> "storage", by |-> "storage", keys |-> {"DK", "DL", "DM", "DN"}, prefix |-> ""],
      [code |-> "price_logistics", by |-> "product", keys |-> _col_range("HP", "IM"), prefix |-> ""],
      [code |-> "orders_fbo_matrix", by |-> "offer",
       keys |-> _col_range("DS", "ET") \cup {"FY", "GA", "GC", "GE", "GG", "GO", "GP", "GQ"},
       prefix |-> "__fbo__"],
      [code |-> "orders_fbs_matrix", by |-> "offer",
       keys |-> _col_range("EV", "FW")
                 \cup {"FZ", "GB", "GD", "GF", "GH", "GR", "GS", "GT",
                       "GI", "GJ", "GK", "GL", "GM", "GU", "GV", "GW"},
       prefix |-> "__fbs__"],
      [code |-> "orders_fbo_old_year", by |-> "offer", keys |-> {"HH", "HJ", "HL"},
       prefix |-> "__fbo_old__"],
      [code |-> "orders_fbs_old_year", by |-> "offer", keys |-> {"HI", "HK", "HM", "HN"},
       prefix |-> "__fbs_old__"]>>

\* The data keys a merge step reads the identifier from, first and fallback,
\* and the monitor key of its index.
IdKeys(by) ==
    CASE by = "sku" -> [first |-> "sku", second |-> "K", index |-> "K"]
      [] by = "storage" -> [first |-> "sku", second |-> "sku", index |-> "K"]
      [] by = "offer" -> [first |-> "offer_id", second |-> "B", index |-> "B"]
      [] by = "product" -> [first |-> "product_id", second |-> "L", index |-> "L"]

\* str(r.data.get(first) or r.data.get(second) or "")
SecondaryId(by, row) ==
    IF Has(row, IdKeys(by).first) THEN row.data[IdKeys(by).first]
    ELSE IF Has(row, IdKeys(by).second) THEN row.data[IdKeys(by).second]
    ELSE ""

\* sku_to_key.get(id) / offer_to_key.get(id) / product_id_to_key.get(id): the
\* monitor rows indexed under the identifier.
Resolve(monitorRows, by, id) ==
    {rk \in KeysWith(monitorRows, IdKeys(by).index) : monitorRows[rk].data[IdKeys(by).index] = id}

\* An unresolved row is merged under the identifier itself.
TargetKeys_fallback(monitorRows, step, rk, row) ==
    IF step.by = "offer" /\ IsMetaKey(rk) THEN {step.prefix \o rk}
    ELSE IF SecondaryId(step.by, row) = "" THEN {}
    ELSE IF Resolve(monitorRows, step.by, SecondaryId(step.by, row)) = {}
    THEN {SecondaryId(step.by, row)}
    ELSE Resolve(monitorRows, step.by, SecondaryId(step.by, row))

\* The monitor row keys a secondary row is merged into: the prefixed key for a
\* meta row of a by-offer report, else the row its identifier resolves to, else
\* none.
TargetKeys(monitorRows, step, rk, row) ==
    IF step.by = "offer" /\ IsMetaKey(rk) THEN {step.prefix \o rk}
    ELSE IF SecondaryId(step.by, row) = "" THEN {}
    ELSE Resolve(monitorRows, step.by, SecondaryId(step.by, row))

\* The payload merged for a secondary row.
Payload(step, rk, row) ==
    IF step.by = "storage"
    THEN [k \in step.keys |->
            LET src == CASE k = "DK" -> "cost_total" [] k = "DL" -> "qty_paid"
                         [] k = "DM" -> "forecast_28" [] k = "DN" -> "warehouses_count"
            IN Get(row.data, src, "")]
    ELSE IF step.by = "offer" /\ IsMetaKey(rk)
    THEN [k \in (step.keys \cap DOMAIN row.data) \cup {"B"}
                    \cup ({"sort_key"} \cap DOMAIN row.data) |->
            IF k \in DOMAIN row.data /\ (k \in step.keys \/ k = "sort_key") THEN row.data[k]
            ELSE IF SecondaryId(step.by, row) # "" THEN SecondaryId(step.by, row)
            ELSE "Itogo/periody"]
    ELSE [k \in step.keys \cap DOMAIN row.data |-> row.data[k]]

\* The part of `merged` one secondary report contributes.
Contribution(store, step) ==
    IF step.code \notin DOMAIN store THEN EmptyMap
    ELSE LET rep == store[step.code]
             hits(t) == {rk \in DOMAIN rep :
                            /\ t \in TargetKeys(store["monitor"], step, rk, rep[rk])
                            /\ Payload(step, rk, rep[rk]) # EmptyMap}
             targets == {t \in UNION {TargetKeys(store["monitor"], step, rk, rep[rk]) : rk \in DOMAIN rep} :
                            hits(t) # {}}
         IN [t \in targets |-> Payload(step, CHOOSE rk \in hits(t) : TRUE, rep[CHOOSE rk \in hits(t) : TRUE])]

\* merged.setdefault(row_key, {}).update(data), for every row of a contribution.
MergeInto(merged, contribution) ==
    [t \in DOMAIN merged \cup DOMAIN contribution |->
        IF t \notin DOMAIN contribution THEN merged[t]
        ELSE IF t \notin DOMAIN merged THEN contribution[t]
        ELSE MergeData(merged[t], contribution[t])]

\* `merged` after the first n merge steps.
RECURSIVE MergedUpTo(_, _)
MergedUpTo(store, n) ==
    IF n = 0 THEN EmptyMap
    ELSE MergeInto(MergedUpTo(store, n - 1), Contribution(store, MergeSteps[n]))

(***************************************************************************)
(* The parts of the state a specification does not use stay as they are    *)
(* here.                                                                   *)
(***************************************************************************)

StoreIdle ==
    /\ rows = EmptyMap
    /\ columns = EmptyMap
    /\ lastUpd = EmptyMap
    /\ before = EmptyMap
    /\ sameAsPrev = FALSE
    /\ expect = EmptyMap

PipeIdle ==
    /\ pipe = "idle"
    /\ order = <<>>
    /\ jobIdx = 0
    /\ phase = "start"
    /\ page = 0
    /\ fetched = {}
    /\ dev = 0
    /\ api = EmptyMap
    /\ replay = FALSE
    /\ started = {}
    /\ finished = {}
    /\ raisedIn = ""
    /\ jobStart = EmptyMap
    /\ catalogRows = EmptyMap
    /\ writers = EmptyMap
    /\ syncLog = <<>>
    /\ runNo = 1
    /\ firstRun = EmptyMap

AggIdle ==
    /\ anchor = 0
    /\ nEvents = 0
    /\ fbo = EmptyMap
    /\ fbs = EmptyMap
    /\ byOffer = EmptyMap
    /\ refPeriod = EmptyMap
    /\ refDaily = EmptyMap
    /\ refDelivered = EmptyMap
    /\ lastSkipped = FALSE

ClockIdle ==
    /\ clock = 0
    /\ events = <<>>
    /\ callNo = 0
    /\ callStep = "idle"
    /\ runStarted = <<>>
    /\ outs = <<>>

PageIdle ==
    /\ fetcher = ""
    /\ cursor = ""
    /\ offset = 0
    /\ month = 0
    /\ reqs = <<>>
    /\ resps = <<>>
    /\ items = <<>>
    /\ pState = "idle"

RetryIdle ==
    /\ client = ""
    /\ batchNo = 0
    /\ attempts = 0
    /\ lastResp = EmptyMap
    /\ got = <<>>
    /\ rState = "idle"

PollIdle ==
    /\ poller = ""
    /\ statuses = <<>>
    /\ elapsed = 0
    /\ pollState = "idle"

FanIdle ==
    /\ idByCell = EmptyMap
    /\ fanHasField = ""
    /\ fanQueries = <<>>
    /\ fanPending = {}
    /\ fanBlocks = EmptyMap
    /\ fanState = "idle"

SlotIdle ==
    /\ slotTable = EmptyMap
    /\ slotFirst = EmptyMap
    /\ slotReturned = EmptyMap
    /\ slotCodes = <<>>
    /\ slotCalls = 0

CatIdle ==
    /\ catRuns = 0
    /\ catStage = "idle"
    /\ catProducts = {}

ChunkIdle ==
    /\ chunkFn = ""
    /\ chunkIds = <<>>
    /\ chunkSent = <<>>
    /\ chunkState = "idle"

RaceIdle ==
    /\ racePc = EmptyMap
    /\ raceSnap = EmptyMap
    /\ raceUpd = EmptyMap

LateIdle == FanIdle /\ SlotIdle /\ CatIdle /\ ChunkIdle /\ RaceIdle

NonStoreIdle ==
    /\ AggIdle
    /\ PipeIdle
    /\ ClockIdle
    /\ PageIdle
    /\ RetryIdle
    /\ PollIdle

OldIdle == StoreIdle /\ NonStoreIdle

NotFanIdle == OldIdle /\ SlotIdle /\ CatIdle /\ ChunkIdle /\ RaceIdle
NotSlotIdle == OldIdle /\ FanIdle /\ CatIdle /\ ChunkIdle /\ RaceIdle
NotCatIdle == NonStoreIdle /\ FanIdle /\ SlotIdle /\ ChunkIdle /\ RaceIdle
NotChunkIdle == OldIdle /\ FanIdle /\ SlotIdle /\ CatIdle /\ RaceIdle
NotRaceIdle == NonStoreIdle /\ FanIdle /\ SlotIdle /\ CatIdle /\ ChunkIdle

ExtIdle == ClockIdle /\ PageIdle /\ RetryIdle /\ PollIdle /\ LateIdle

(***************************************************************************)
(* SpecStore: arbitrary upsert_rows calls on one report                    *)
(***************************************************************************)

TestReport == "t"
RowKeys == {"A", "B"}

\* The partial row updates a call may carry.
RowData ==
    {d \in Dicts({"col1", "col2", "sort_key"}, {"", "1", "2", "s"}) :
        /\ "col1" \in DOMAIN d => d["col1"] \in {"1", "2"}
        /\ "col2" \in DOMAIN d => d["col2"] \in {"2"}
        /\ "sort_key" \in DOMAIN d => d["sort_key"] \in {"", "s"}}

\* Row "B" is written with one column at most: it is there for the rows a call
\* leaves alone.
Updates ==
    {u \in Dicts(RowKeys, RowData) :
        "B" \in DOMAIN u => u["B"] \in {EmptyMap, [c \in {"col1"} |-> "1"]}}

\* The claim's rule, key by key: a key of the update takes the update's value,
\* any other key keeps what it had.
ExpectAfter(exp, upd) ==
    [rk \in DOMAIN exp \cup DOMAIN upd |->
        LET old == IF rk \in DOMAIN exp THEN exp[rk] ELSE EmptyMap
            new == IF rk \in DOMAIN upd THEN upd[rk] ELSE EmptyMap
        IN [k \in DOMAIN old \cup DOMAIN new |->
                IF k \in DOMAIN new THEN new[k] ELSE old[k]]]

StoreInit ==
    /\ rows = [c \in {TestReport} |-> EmptyMap]
    /\ columns = [c \in {TestReport} |-> EmptyMap]
    /\ lastUpd = EmptyMap
    /\ before = EmptyMap
    /\ sameAsPrev = FALSE
    /\ expect = EmptyMap
    /\ AggIdle
    /\ PipeIdle
    /\ ExtIdle

UpsertCall ==
    \E upd \in Updates :
        /\ rows' = [rows EXCEPT ![TestReport] = upsert_rows(@, upd)]
        /\ before' = rows[TestReport]
        /\ lastUpd' = upd
        /\ sameAsPrev' = (upd = lastUpd /\ upd # EmptyMap)
        /\ expect' = ExpectAfter(expect, upd)
        /\ UNCHANGED columns
        /\ UNCHANGED <<aggVars, pipeVars, extVars>>

StoreNext == UpsertCall

SpecStore == StoreInit /\ [][StoreNext]_vars

\* The data of the rows of a report, without their sort_key.
DataOf(rs) == [rk \in DOMAIN rs |-> rs[rk].data]

\* C1: after any sequence of upsert_rows calls each row's data is the key-wise
\* right-biased union of the partial updates applied to its row_key, in call
\* order: a key absent from an update keeps its value, a key present takes the
\* update's value, and a row the call does not name is untouched.
C1_UpsertIsKeywiseUnion ==
    LET now == rows[TestReport] IN
    /\ DataOf(now) = expect
    /\ \A rk \in DOMAIN before \ DOMAIN lastUpd :
            rk \in DOMAIN now /\ now[rk] = before[rk]
    /\ \A rk \in DOMAIN lastUpd :
        /\ rk \in DOMAIN now
        /\ \A k \in DOMAIN lastUpd[rk] :
                k \in DOMAIN now[rk].data /\ now[rk].data[k] = lastUpd[rk][k]
        /\ \A k \in DOMAIN now[rk].data \ DOMAIN lastUpd[rk] :
                /\ rk \in DOMAIN before
                /\ k \in DOMAIN before[rk].data
                /\ now[rk].data[k] = before[rk].data[k]
        /\ rk \in DOMAIN before => DOMAIN before[rk].data \subseteq DOMAIN now[rk].data

\* Scenario B: {A: {col1: 1}} then {A: {col2: 2}} leaves row A with both columns,
\* while row B, written earlier, is left as it was.
C1_Witness ==
    /\ "A" \in DOMAIN before /\ "B" \in DOMAIN before
    /\ before["A"].data = [k \in {"col1"} |-> "1"]
    /\ lastUpd = [rk \in {"A"} |-> [k \in {"col2"} |-> "2"]]
    /\ rows[TestReport]["A"].data = [k \in {"col1", "col2"} |-> IF k = "col1" THEN "1" ELSE "2"]
    /\ rows[TestReport]["B"] = before["B"]

\* C2: calling upsert_rows twice in succession with the same update map leaves
\* every row's data as it was after the first call, from every store state and
\* for every update map.
C2_UpsertIdempotent ==
    /\ sameAsPrev => DataOf(rows[TestReport]) = DataOf(before)
    /\ \A upd \in Updates :
            LET once == upsert_rows(rows[TestReport], upd)
            IN DataOf(upsert_rows(once, upd)) = DataOf(once)

\* The same update was applied twice in a row to a row that held other columns,
\* and it overwrote one column of that row.
C2_Witness ==
    /\ sameAsPrev
    /\ "A" \in DOMAIN lastUpd /\ "A" \in DOMAIN before
    /\ "col1" \in DOMAIN lastUpd["A"]
    /\ "col2" \in DOMAIN before["A"].data /\ "col2" \notin DOMAIN lastUpd["A"]
    /\ lastUpd["A"]["col1"] = "2"


\* The sort_key an existing row has after a call, by the rule of the claim: the
\* supplied one, or the stored one when none is supplied.
SortKeyAsSupplied(rk) ==
    IF "sort_key" \in DOMAIN lastUpd[rk] THEN lastUpd[rk]["sort_key"] ELSE before[rk].sort_key

\* C24 as stated: upsert_rows changes the sort_key of an existing row only when
\* the update for the row supplies one, and then sets it to the supplied value.
C24_SortKeyAsSupplied ==
    /\ \A rk \in DOMAIN before \cap DOMAIN lastUpd :
            rows[TestReport][rk].sort_key = SortKeyAsSupplied(rk)
    /\ \A rk \in DOMAIN before \ DOMAIN lastUpd :
            rows[TestReport][rk].sort_key = before[rk].sort_key

\* C24, amended: the sort_key of an existing row changes only when the update
\* for the row supplies a non-empty sort_key, and is then the supplied value; a
\* supplied sort_key that is empty, like none at all, leaves the stored one.
C24_SortKeyAsSuppliedUnlessEmpty ==
    /\ \A rk \in DOMAIN before \cap DOMAIN lastUpd :
            rows[TestReport][rk].sort_key =
                IF "sort_key" \in DOMAIN lastUpd[rk] /\ lastUpd[rk]["sort_key"] # ""
                THEN lastUpd[rk]["sort_key"] ELSE before[rk].sort_key
    /\ \A rk \in DOMAIN before \ DOMAIN lastUpd :
            rows[TestReport][rk].sort_key = before[rk].sort_key

\* Row A, stored with sort_key "s", was updated with an empty sort_key and kept
\* "s".
C24_Witness ==
    /\ "A" \in DOMAIN before /\ "A" \in DOMAIN lastUpd
    /\ before["A"].sort_key = "s"
    /\ "sort_key" \in DOMAIN lastUpd["A"] /\ lastUpd["A"]["sort_key"] = ""
    /\ rows[TestReport]["A"].sort_key = "s"

(***************************************************************************)
(* SpecAgg: the three order aggregators run over the same postings, one    *)
(* loop pass per step, at the same time of the run                         *)
(***************************************************************************)

\* Postings consumed by one run.
MaxEvents == 2

\* Times of the run: 13:00 and 01:00 Moscow time.
AnchorTimes == {400 * 24 + 10, 400 * 24 + 22}

\* Events lie this many UTC days before the UTC day of the run, at these hours.
DayOffsets == {-1, 0, 6, 7, 13, 14, 27, 28, 59, 60, 89, 90}
EventHours == {0, 22}

Offers == {"X123"}

Timestamps(a) ==
    {[fmt |-> "iso_z", t |-> (DateOf(a) - o) * 24 + h] : o \in DayOffsets, h \in EventHours}

\* Status and quantity of a posting's product line.
Lines == {[status |-> "delivered", quantity |-> 3], [status |-> "awaiting_deliver", quantity |-> 5]}

\* The postings of a run at time a: an offer's lines at every time of the
\* universe, and one posting each with a timestamp no format accepts, with no
\* offer id, with quantity 0, with the status in another letter case, and of
\* the same day and month one year before.
Postings(a) ==
    {[in_process_at |-> ts, status |-> l.status, offer_id |-> e, quantity |-> l.quantity] :
        ts \in Timestamps(a), l \in Lines, e \in Offers}
    \cup {[in_process_at |-> [fmt |-> "bad", t |-> a - 24], status |-> "delivered",
           offer_id |-> "X123", quantity |-> 3],
          [in_process_at |-> [fmt |-> "iso_z", t |-> a - 24], status |-> "Delivered",
           offer_id |-> "X123", quantity |-> 2],
          [in_process_at |-> [fmt |-> "iso_z", t |-> a - 365 * 24], status |-> "awaiting_deliver",
           offer_id |-> "X123", quantity |-> 4],
          [in_process_at |-> [fmt |-> "iso_z", t |-> a - 24], status |-> "delivered",
           offer_id |-> "", quantity |-> 3],
          [in_process_at |-> [fmt |-> "iso_z", t |-> a - 24], status |-> "delivered",
           offer_id |-> "X123", quantity |-> 0]}

\* Calendar-day distance, in Moscow time, of a time from the day of the run.
DeltaDays(a, t) == DateOf(ToMsk(a)) - DateOf(ToMsk(t))

\* The period sums as defined: quantity q of an entity's event at distance
\* delta counts for period P iff 0 <= delta <= P - 1.
RefPeriodAfter(ref, a, p) ==
    IF p.in_process_at.fmt # "iso_z" \/ p.offer_id = "" THEN ref
    ELSE [P \in DOMAIN ref |->
            [e \in DOMAIN ref[P] |->
                IF e = p.offer_id
                   /\ 0 <= DeltaDays(a, p.in_process_at.t)
                   /\ DeltaDays(a, p.in_process_at.t) <= P - 1
                THEN ref[P][e] + p.quantity ELSE ref[P][e]]]

\* The daily matrix as defined: element i (from 0) is the quantity on calendar
\* day today - (D - 1) + i; position i + 1 here.
RefDailyAfter(ref, a, p) ==
    IF p.in_process_at.fmt # "iso_z" \/ p.offer_id = "" THEN ref
    ELSE [e \in DOMAIN ref |->
            [i \in 1..DAYS_WINDOW |->
                IF e = p.offer_id
                   /\ DateOf(ToMsk(p.in_process_at.t))
                        = DateOf(ToMsk(a)) - (DAYS_WINDOW - 1) + (i - 1)
                THEN ref[e][i] + p.quantity ELSE ref[e][i]]]

\* The delivered-only sums as defined: as the period sums, over the events
\* whose status is "delivered" in any letter case.
RefDeliveredAfter(ref, a, p) ==
    IF Lower(p.status) = "delivered" THEN RefPeriodAfter(ref, a, p) ELSE ref

AggInit ==
    /\ anchor \in AnchorTimes
    /\ nEvents = 0
    /\ fbo = [day_counts_by_offer |-> EmptyMap,
              period_counts_by_col |-> [c \in DOMAIN PERIOD_COLUMNS_FBO |-> EmptyMap],
              delivered_counts_by_col |-> [c \in DOMAIN DELIVERED_COLUMNS_FBO |-> EmptyMap]]
    /\ fbs = [daily_total |-> EmptyMap,
              daily_by_offer |-> EmptyMap,
              totals_by_period |-> [d \in DOMAIN PERIOD_COLUMNS_FBS |-> EmptyMap],
              delivered_by_period |-> [d \in DOMAIN DELIVERED_COLUMNS_FBS |-> EmptyMap]]
    /\ byOffer = EmptyMap
    /\ refPeriod = [P \in DaysWindows |-> [e \in Offers |-> 0]]
    /\ refDaily = [e \in Offers |-> ZeroDays]
    /\ refDelivered = [P \in {30, 60, 90} |-> [e \in Offers |-> 0]]
    /\ lastSkipped = FALSE
    /\ StoreIdle
    /\ PipeIdle
    /\ ExtIdle

\* The next posting goes through the loop body of each aggregator.
AggregatePosting ==
    /\ nEvents < MaxEvents
    /\ \E p \in Postings(anchor) :
        /\ fbo' = _aggregate_fbo(fbo, p, ToMsk(anchor))
        /\ fbs' = IF _prepare_fbs_orders(p) = <<>> THEN fbs
                  ELSE _aggregate_fbs(fbs, _prepare_fbs_orders(p)[1], ToMsk(anchor))
        /\ byOffer' = _aggregate_by_offer(byOffer, p, anchor)
        /\ refPeriod' = RefPeriodAfter(refPeriod, anchor, p)
        /\ refDaily' = RefDailyAfter(refDaily, anchor, p)
        /\ refDelivered' = RefDeliveredAfter(refDelivered, anchor, p)
        /\ lastSkipped' = (p.in_process_at.fmt # "iso_z")
    /\ nEvents' = nEvents + 1
    /\ UNCHANGED anchor
    /\ UNCHANGED <<storeVars, callVars, pipeVars, extVars>>

AggNext == AggregatePosting

SpecAgg == AggInit /\ [][AggNext]_vars

\* period_counts_by_col[col].get(offer_id, 0) for the column of period P
FboPeriod(P, e) ==
    LET col == CHOOSE c \in DOMAIN PERIOD_COLUMNS_FBO : PERIOD_COLUMNS_FBO[c] = P
    IN Get(fbo.period_counts_by_col[col], e, 0)

\* totals_by_period[P].get(offer_id, 0)
FbsPeriod(P, e) == Get(fbs.totals_by_period[P], e, 0)

\* by_offer.get(offer_id, {}).get("orders_P", 0)
ByOfferPeriod(P, e) == IF e \in DOMAIN byOffer THEN byOffer[e][P] ELSE 0

\* day_counts_by_offer.get(offer_id, [0] * DAYS_WINDOW)
DayValues(e) == Get(fbo.day_counts_by_offer, e, ZeroDays)

\* The period sums of the two matrix aggregators follow the calendar-day rule.
MatrixPeriodsByCalendarDay ==
    \A P \in DaysWindows : \A e \in Offers :
        /\ FboPeriod(P, e) = refPeriod[P][e]
        /\ FbsPeriod(P, e) = refPeriod[P][e]

\* C9: for every period length P and entity, the period sum of each of
\* _aggregate_fbo, _aggregate_fbs and _aggregate_by_offer is the total quantity
\* of exactly the events with 0 <= delta_days <= P - 1 in Moscow calendar days,
\* whatever the time of day of the events and of the run.
C9_PeriodSumsByCalendarDay ==
    \A P \in DaysWindows : \A e \in Offers :
        /\ FboPeriod(P, e) = refPeriod[P][e]
        /\ FbsPeriod(P, e) = refPeriod[P][e]
        /\ ByOfferPeriod(P, e) = refPeriod[P][e]

\* C10: for every entity the FBO daily matrix has length D = 28 and element i
\* is the quantity of the entity's events on calendar day today - (D - 1) + i;
\* days without events and entities without events hold zeros, events outside
\* the window change nothing.
C10_DailyMatrix ==
    \A e \in Offers :
        /\ Len(DayValues(e)) = DAYS_WINDOW
        /\ \A i \in 1..DAYS_WINDOW : DayValues(e)[i] = refDaily[e][i]

\* Two events were aggregated: one on the oldest day of the window, with a
\* quantity, and one outside the window.
C10_Witness ==
    /\ nEvents = 2
    /\ "X123" \in DOMAIN fbo.day_counts_by_offer
    /\ DayValues("X123")[1] = 3
    /\ \A i \in 2..DAYS_WINDOW : DayValues("X123")[i] = 0
    /\ FboPeriod(28, "X123") = 3
    /\ FboPeriod(60, "X123") = 8

\* sum(day_values)
RECURSIVE SumSeq(_)
SumSeq(q) == IF q = <<>> THEN 0 ELSE q[1] + SumSeq(Tail(q))

\* The day cells EV.. of an offer's row of orders_fbs_matrix: the labels of
\* _aggregate_fbs' dates looked up in daily_by_offer.
FbsDayValues(e) ==
    LET now0 == DateOf(ToMsk(anchor))
        dates == [i \in 1..DAYS_WINDOW |-> DayMonth(now0 - (DAYS_WINDOW - i))]
        by_day == Get(fbs.daily_by_offer, e, EmptyMap)
    IN [i \in 1..DAYS_WINDOW |-> Get(by_day, dates[i], 0)]

\* The FBO half of the cross-check: the day cells of an offer add up to its
\* 28-day period sum.
FboDailySumIsPeriod28 ==
    \A e \in Offers : SumSeq(DayValues(e)) = FboPeriod(DAYS_WINDOW, e)

\* C11: for every entity and event list the sum of the entity's 28-element
\* daily matrix equals its 28-day period sum of the same run, in the FBO and in
\* the FBS aggregator.
C11_DailySumIsPeriod28 ==
    \A e \in Offers :
        /\ SumSeq(DayValues(e)) = FboPeriod(DAYS_WINDOW, e)
        /\ SumSeq(FbsDayValues(e)) = FbsPeriod(DAYS_WINDOW, e)

\* delivered_counts_by_col[col].get(offer_id, 0) for the column of period P
FboDelivered(P, e) ==
    LET col == CHOOSE c \in DOMAIN DELIVERED_COLUMNS_FBO : DELIVERED_COLUMNS_FBO[c] = P
    IN Get(fbo.delivered_counts_by_col[col], e, 0)

\* delivered_by_period[P].get(offer_id, 0)
FbsDelivered(P, e) == Get(fbs.delivered_by_period[P], e, 0)

\* The FBO half of the delivered-only sums: any letter case of the status.
FboDeliveredIgnoringCase ==
    \A P \in DOMAIN refDelivered : \A e \in Offers : FboDelivered(P, e) = refDelivered[P][e]

\* C12: the delivered-only period sums count exactly the events whose status
\* is "delivered" in any letter case, by the day-window rule of the period
\* sums, in the FBO and in the FBS aggregator.
C12_DeliveredIgnoringCase ==
    \A P \in DOMAIN refDelivered : \A e \in Offers :
        /\ FboDelivered(P, e) = refDelivered[P][e]
        /\ FbsDelivered(P, e) = refDelivered[P][e]

\* C13: a posting whose timestamp cannot be parsed is skipped by each of the
\* three aggregators: the loop pass raises nothing and leaves every daily,
\* period and delivered-only accumulator as it was, so the result is the one
\* of the other postings alone.
C13_UnparseableSkipped ==
    [][lastSkipped' => (fbo' = fbo /\ fbs' = fbs /\ byOffer' = byOffer)]_vars

\* A posting with a bad timestamp was consumed after one that was counted.
C13_Witness ==
    /\ lastSkipped
    /\ nEvents = 2
    /\ FboPeriod(7, "X123") > 0
    /\ FbsPeriod(7, "X123") > 0
    /\ ByOfferPeriod(7, "X123") > 0


(***************************************************************************)
(* SpecPipe: one run of sync_shop against an API that answers each request *)
(* nominally or not                                                        *)
(***************************************************************************)

\* API responses of one run that are not the nominal one (a further page, an
\* empty result, an error status).
MaxDeviations == 1

\* The job that runs.
Job == order[jobIdx]

\* Responses to a request of a job other than sync_monitor: the last page with
\* items, a page with items and more to come, nothing, an error status that
\* OzonClient.post turns into an exception.
JobOutcomes == {"last", "more", "empty", "raise"}

\* Responses to the request of stage k of sync_monitor; stage 1 lists one or
\* two products, or none.
MonitorOutcomes(k) == IF k = 1 THEN {"ok1", "ok2", "empty", "raise"} ELSE {"ok", "raise"}

Cost(o) == IF o \in {"last", "ok", "ok1", "ok2"} THEN 0 ELSE 1

\* The responses the API may give to request `key`: the recorded one when the
\* run replays, else any the budget allows.
Choices(key, all) ==
    IF replay /\ key \in DOMAIN api THEN {api[key]}
    ELSE {o \in all : dev + Cost(o) <= MaxDeviations}

\* Bookkeeping of a response.
Answered(key, o) ==
    /\ dev' = IF replay /\ key \in DOMAIN api THEN dev ELSE dev + Cost(o)
    /\ api' = IF replay THEN Put(api, key, o) ELSE api

\* Who wrote which column key of the monitor report.
NoteWrites(w, who, upd) ==
    LET keys == UNION {DOMAIN upd[rk] : rk \in DOMAIN upd}
    IN [c \in DOMAIN w \cup keys |->
            (IF c \in DOMAIN w THEN w[c] ELSE {}) \cup (IF c \in keys THEN {who} ELSE {})]

\* The job returns: sync_shop goes on to its next call, or returns itself.
Return ==
    /\ finished' = finished \cup {Job}
    /\ phase' = "start"
    /\ page' = 0
    /\ fetched' = {}
    /\ IF jobIdx = Len(order)
       THEN pipe' = "done" /\ jobIdx' = jobIdx
       ELSE pipe' = "running" /\ jobIdx' = jobIdx + 1
    /\ catalogRows' = IF Job = "sync_monitor" THEN rows'["monitor"] ELSE catalogRows
    /\ UNCHANGED raisedIn

\* An exception leaves the job: nothing in sync_shop catches it, the task ends.
Raise ==
    /\ pipe' = "aborted"
    /\ raisedIn' = Job
    /\ UNCHANGED <<jobIdx, phase, page, fetched, finished, catalogRows>>

\* The job is entered.
Enter ==
    /\ started' = started \cup {Job}
    /\ jobStart' = [rows |-> rows, columns |-> columns]

PipeInit ==
    /\ rows = EmptyMap
    /\ columns = EmptyMap
    /\ lastUpd = EmptyMap
    /\ before = EmptyMap
    /\ sameAsPrev = FALSE
    /\ expect = EmptyMap
    /\ AggIdle
    /\ ExtIdle
    /\ pipe = "idle"
    /\ order = JobOrder
    /\ jobIdx = 0
    /\ phase = "start"
    /\ page = 0
    /\ fetched = {}
    /\ dev = 0
    /\ api = EmptyMap
    /\ replay = FALSE
    /\ started = {}
    /\ finished = {}
    /\ raisedIn = ""
    /\ jobStart = EmptyMap
    /\ catalogRows = EmptyMap
    /\ writers = EmptyMap
    /\ syncLog = <<>>
    /\ runNo = 1
    /\ firstRun = EmptyMap

\* sync_shop(shop_id): a shop without client_id or token is left alone.
SyncShop ==
    /\ pipe = "idle"
    /\ \E credentials \in BOOLEAN :
        IF credentials
        THEN pipe' = "running" /\ jobIdx' = 1
        ELSE pipe' = "skipped" /\ jobIdx' = jobIdx
    /\ UNCHANGED <<storeVars, callVars, aggVars, extVars>>
    /\ UNCHANGED <<syncLog, runNo, firstRun>>
    /\ UNCHANGED <<order, phase, page, fetched, dev, api, replay, started, finished, raisedIn,
                   jobStart, catalogRows, writers>>

\* sync_monitor up to its first request: the report and its columns.
MonitorBegin ==
    /\ pipe = "running" /\ Job = "sync_monitor" /\ phase = "start"
    /\ Enter
    /\ rows' = get_or_create_report(rows, "monitor")
    /\ columns' = [get_or_create_report(columns, "monitor") EXCEPT
                        !["monitor"] = ensure_columns(@, ColumnDefs(_monitor_columns))]
    /\ phase' = "fetch"
    /\ page' = 1
    /\ UNCHANGED <<callVars, aggVars, extVars>>
    /\ UNCHANGED <<syncLog, runNo, firstRun>>
    /\ UNCHANGED <<pipe, order, jobIdx, fetched, dev, api, replay, finished, raisedIn,
                   catalogRows, writers>>

\* One stage of sync_monitor: its request and the upsert_rows that follows.
MonitorStage ==
    /\ pipe = "running" /\ Job = "sync_monitor" /\ phase = "fetch"
    /\ LET k == page
           st == MonitorStages[k]
           next == IF k = Len(MonitorStages)
                   THEN Return
                   ELSE /\ page' = k + 1
                        /\ UNCHANGED <<pipe, jobIdx, phase, fetched, finished, raisedIn, catalogRows>>
           write(upd) ==
                /\ rows' = [rows EXCEPT !["monitor"] = upsert_rows(@, upd)]
                /\ writers' = NoteWrites(writers, "sync_monitor", upd)
       IN IF st.guard # "" /\ KeysWith(rows["monitor"], st.guard) = {}
          THEN /\ UNCHANGED <<rows, writers, dev, api>>
               /\ next
          ELSE \E o \in Choices(<<Job, k>>, MonitorOutcomes(k)) :
                /\ Answered(<<Job, k>>, o)
                /\ IF o = "raise" /\ ~st.caught
                   THEN Raise /\ UNCHANGED <<rows, writers>>
                   ELSE /\ write(IF o \in {"raise", "empty"} THEN EmptyMap
                                 ELSE IF k = 1 THEN ProductRows(IF o = "ok1" THEN {P1} ELSE {P1, P2})
                                 ELSE StageRows(k, rows["monitor"]))
                        /\ next
    /\ UNCHANGED <<columns, callVars, aggVars, extVars>>
    /\ UNCHANGED <<syncLog, runNo, firstRun>>
    /\ UNCHANGED <<order, replay, started, jobStart>>

\* A sync job up to its first request: its report, its columns when it
\* declares them first, and the identifier list when it reads it first.
JobBegin ==
    /\ pipe = "running" /\ Job \in SyncJobs /\ phase = "start"
    /\ Enter
    /\ LET def == JobDef(Job) IN
        /\ rows' = get_or_create_report(rows, def.report)
        /\ columns' = IF def.ensureAt = "before"
                      THEN [get_or_create_report(columns, def.report) EXCEPT
                                ![def.report] = ensure_columns(@, ColumnDefs(JobColumns(Job)))]
                      ELSE get_or_create_report(columns, def.report)
        /\ IF def.idsAt = "before" /\ def.idsRequired /\ MonitorIds(rows, def.ids) = {}
           THEN Return
           ELSE /\ phase' = "fetch"
                /\ page' = 1
                /\ UNCHANGED <<pipe, jobIdx, fetched, finished, raisedIn, catalogRows>>
    /\ UNCHANGED <<callVars, aggVars, extVars>>
    /\ UNCHANGED <<syncLog, runNo, firstRun>>
    /\ UNCHANGED <<order, dev, api, replay, writers>>

\* One request of a sync job.
JobFetch ==
    /\ pipe = "running" /\ Job \in SyncJobs /\ phase = "fetch"
    /\ \E o \in Choices(<<Job, page>>, JobOutcomes) :
        /\ Answered(<<Job, page>>, o)
        /\ CASE o = "raise" -> Raise
             [] o = "more" ->
                    /\ fetched' = fetched \cup Items(Job, page)
                    /\ page' = page + 1
                    /\ UNCHANGED <<pipe, jobIdx, phase, finished, raisedIn, catalogRows>>
             [] o = "last" ->
                    /\ fetched' = fetched \cup Items(Job, page)
                    /\ phase' = "commit"
                    /\ UNCHANGED <<pipe, jobIdx, page, finished, raisedIn, catalogRows>>
             [] o = "empty" ->
                    /\ phase' = "commit"
                    /\ UNCHANGED <<pipe, jobIdx, page, fetched, finished, raisedIn, catalogRows>>
    /\ UNCHANGED <<storeVars, callVars, aggVars, extVars>>
    /\ UNCHANGED <<syncLog, runNo, firstRun>>
    /\ UNCHANGED <<order, replay, started, jobStart, writers>>

\* The rest of a sync job after its last request: the early returns, the
\* columns when they are declared late, and the one upsert_rows.
JobCommit ==
    /\ pipe = "running" /\ Job \in SyncJobs /\ phase = "commit"
    /\ LET def == JobDef(Job)
           ids == MonitorIds(rows, def.ids)
       IN IF def.emptyReturns /\ fetched = {}
          THEN UNCHANGED <<rows, columns>>
          ELSE /\ columns' = IF def.ensureAt = "after"
                             THEN [columns EXCEPT
                                    ![def.report] = ensure_columns(@, ColumnDefs(JobColumns(Job)))]
                             ELSE columns
               /\ rows' = IF def.idsAt # "none" /\ def.idsRequired /\ ids = {}
                          THEN rows
                          ELSE [rows EXCEPT ![def.report] =
                                    upsert_rows(@, JobRows(Job, rows,
                                                           IF def.idsAt = "none" THEN fetched ELSE ids))]
    /\ Return
    /\ UNCHANGED <<callVars, aggVars, extVars>>
    /\ UNCHANGED <<syncLog, runNo, firstRun>>
    /\ UNCHANGED <<order, dev, api, replay, started, jobStart, writers>>

\* merge_monitor_reports
Merge ==
    /\ pipe = "running" /\ Job = "merge_monitor_reports" /\ phase = "start"
    /\ Enter
    /\ LET store == get_or_create_report(rows, "monitor")
           merged == MergedUpTo(store, Len(MergeSteps))
           W[n \in 0..Len(MergeSteps)] ==
                IF n = 0 THEN writers
                ELSE NoteWrites(W[n - 1], MergeSteps[n].code, Contribution(store, MergeSteps[n]))
       IN /\ rows' = IF merged # EmptyMap
                     THEN [store EXCEPT !["monitor"] = upsert_rows(@, merged)]
                     ELSE store
          /\ writers' = W[Len(MergeSteps)]
    /\ columns' = [get_or_create_report(columns, "monitor") EXCEPT
                        !["monitor"] = ensure_columns(@, ColumnDefs(_monitor_columns))]
    /\ Return
    /\ UNCHANGED <<callVars, aggVars, extVars>>
    /\ UNCHANGED <<syncLog, runNo, firstRun>>
    /\ UNCHANGED <<order, dev, api, replay>>

PipeNext ==
    \/ SyncShop
    \/ MonitorBegin
    \/ MonitorStage
    \/ JobBegin
    \/ JobFetch
    \/ JobCommit
    \/ Merge

SpecPipe == PipeInit /\ [][PipeNext]_vars


\* The rows of a report, none when the report does not exist.
RowsOf(store, code) == IF code \in DOMAIN store THEN store[code] ELSE EmptyMap

AllJobs == {JobOrder[i] : i \in 1..Len(JobOrder)}

\* C3: in every run of sync_shop, sync_monitor has returned, with all its writes
\* to the monitor report made, before any other sync job is entered, and
\* merge_monitor_reports is entered only after every sync job has returned.
C3_CatalogFirstMergeLast ==
    /\ \A j \in started \ {"sync_monitor"} : "sync_monitor" \in finished
    /\ "merge_monitor_reports" \in started => AllJobs \ {"merge_monitor_reports"} \subseteq finished
    /\ (pipe = "running" /\ Job \in SyncJobs) => RowsOf(rows, "monitor") = catalogRows

\* A run went through: the catalog holds product X123 with its SKU, every job
\* returned, and the merge wrote the storage columns into the product's row.
C3_Witness ==
    /\ pipe = "done"
    /\ finished = AllJobs
    /\ "X123" \in DOMAIN catalogRows
    /\ Has(catalogRows["X123"], "K")
    /\ "DK" \notin DOMAIN catalogRows["X123"].data
    /\ Has(rows["monitor"]["X123"], "DK")

\* C4: when a sync job raises, the exception is caught and recorded with a
\* status, the remaining sync jobs still run and the merge still runs.
C4_FailureIsContained ==
    raisedIn # "" =>
        /\ pipe # "aborted"
        /\ syncLog # <<>>
        /\ pipe = "done" => finished = AllJobs \ {raisedIn}

\* While a job other than sync_monitor is fetching, and after it failed while
\* fetching, the rows of every report are those of the moment it was entered.
SyncJobsWriteRowsOnce ==
    (pipe \in {"running", "aborted"} /\ Job \in SyncJobs /\ phase = "fetch") =>
        \A code \in DOMAIN rows : RowsOf(rows, code) = RowsOf(jobStart.rows, code)

\* C5: every sync job writes rows only after all its requests have completed:
\* while a job is fetching the store holds none of that run's rows, and a job
\* that failed while fetching has left none.
C5_WritesOnlyAfterLastFetch ==
    (pipe \in {"running", "aborted"} /\ jobIdx > 0 /\ phase = "fetch") =>
        \A code \in DOMAIN rows : RowsOf(rows, code) = RowsOf(jobStart.rows, code)

\* The column keys sync_monitor writes.
CatalogKeys == UNION {MonitorStages[k].keys : k \in 1..Len(MonitorStages)}

\* The column keys a secondary report contributes in the merge.
ContributedKeys(n) ==
    MergeSteps[n].keys \cup (IF MergeSteps[n].by = "offer" THEN {"B", "sort_key"} ELSE {})

\* The key sets the code names for the catalog job and for each secondary
\* report in the merge are pairwise disjoint.
NamedKeySetsDisjoint ==
    /\ \A n \in 1..Len(MergeSteps) : ContributedKeys(n) \cap CatalogKeys = {}
    /\ \A n, m \in 1..Len(MergeSteps) : n # m => ContributedKeys(n) \cap ContributedKeys(m) = {}

\* C7: no column key of the monitor report is written by more than one job:
\* whatever the catalog job and the secondary reports have written into the
\* monitor report, no column key has two writers.
C7_DisjointColumnOwnership ==
    \A c \in DOMAIN writers : Cardinality(writers[c]) <= 1

\* The monitor rows, as they were when the merge was entered, that carry the
\* identifier of some row of a secondary report that is not a meta row.
ResolvedRows ==
    LET mon == jobStart.rows["monitor"] IN
    {rk \in DOMAIN mon :
        \E n \in 1..Len(MergeSteps) :
            \E r \in DOMAIN RowsOf(rows, MergeSteps[n].code) :
                LET row == rows[MergeSteps[n].code][r]
                    id == SecondaryId(MergeSteps[n].by, row)
                    ix == IdKeys(MergeSteps[n].by).index
                IN /\ ~(MergeSteps[n].by = "offer" /\ IsMetaKey(r))
                   /\ id # ""
                   /\ Has(mon[rk], ix)
                   /\ mon[rk].data[ix] = id}

\* The keys under which the merge copies the meta rows of the by-offer reports.
MetaRows ==
    {MergeSteps[n].prefix \o r :
        n \in {m \in 1..Len(MergeSteps) : MergeSteps[m].by = "offer"},
        r \in {"__row3__", "__month__", "__range__", "__column_sums__"}}

MergeReturned == "merge_monitor_reports" \in finished

ReversedOrder ==
    [i \in 1..Len(JobOrder) |->
        IF i = 1 \/ i = Len(JobOrder) THEN JobOrder[i] ELSE JobOrder[Len(JobOrder) + 1 - i]]

PermInit ==
    /\ rows = EmptyMap
    /\ columns = EmptyMap
    /\ lastUpd = EmptyMap
    /\ before = EmptyMap
    /\ sameAsPrev = FALSE
    /\ expect = EmptyMap
    /\ AggIdle
    /\ ExtIdle
    /\ pipe = "idle"
    /\ order = JobOrder
    /\ jobIdx = 0
    /\ phase = "start"
    /\ page = 0
    /\ fetched = {}
    /\ dev = 0
    /\ api = EmptyMap
    /\ replay = TRUE
    /\ started = {}
    /\ finished = {}
    /\ raisedIn = ""
    /\ jobStart = EmptyMap
    /\ catalogRows = EmptyMap
    /\ writers = EmptyMap
    /\ syncLog = <<>>
    /\ runNo = 1
    /\ firstRun = EmptyMap

\* The run is over: the store is put back to its starting state and sync_shop
\* runs again with the other call order; every request made before gets the
\* answer it got.
Rerun ==
    /\ replay
    /\ runNo = 1
    /\ pipe \in {"done", "aborted"}
    /\ firstRun' = [rows |-> rows, columns |-> columns, raisedIn |-> raisedIn]
    /\ runNo' = 2
    /\ rows' = EmptyMap
    /\ columns' = EmptyMap
    /\ order' = ReversedOrder
    /\ pipe' = "running"
    /\ jobIdx' = 1
    /\ phase' = "start"
    /\ page' = 0
    /\ fetched' = {}
    /\ started' = {}
    /\ finished' = {}
    /\ raisedIn' = ""
    /\ jobStart' = EmptyMap
    /\ catalogRows' = EmptyMap
    /\ writers' = EmptyMap
    /\ UNCHANGED <<dev, api, replay, syncLog>>
    /\ UNCHANGED <<callVars, aggVars, extVars>>

PermNext ==
    \/ SyncShop
    \/ MonitorBegin
    \/ MonitorStage
    \/ JobBegin
    \/ JobFetch
    \/ JobCommit
    \/ Merge
    \/ Rerun

SpecPerm == PermInit /\ [][PermNext]_vars

SecondRunOver == runNo = 2 /\ pipe \in {"done", "aborted"}

\* When no job raises in either run, the order of the sync jobs does not show
\* in the store.
OrderIndependentWithoutFailure ==
    (SecondRunOver /\ firstRun.raisedIn = "" /\ raisedIn = "") =>
        rows = firstRun.rows /\ columns = firstRun.columns

\* C6: for fixed API responses and a fixed starting store, the reports after a
\* run are the same whatever the order of the sync jobs between sync_monitor
\* and merge_monitor_reports.
C6_OrderIndependent ==
    SecondRunOver => rows = firstRun.rows /\ columns = firstRun.columns


(***************************************************************************)
(* SpecClock: the order jobs called twice on the same postings while the   *)
(* wall clock runs                                                         *)
(***************************************************************************)

\* Hours the clock may advance during the two calls.
MaxTicks == 2

\* Postings in the list the upstream returns.
MaxClockEvents == 2

\* The first call starts at 22:00 or 23:00 Moscow time of day 400.
ClockStarts == {400 * 24 + 19, 400 * 24 + 20}
LastClock == 400 * 24 + 20 + MaxTicks

\* Seven days to the hour before the earliest start, noon six days before, and
\* noon of day 400, in hours UTC.
ClockEventTimes == {400 * 24 + 19 - 7 * 24, (400 - 6) * 24 + 9, 400 * 24 + 9}

ClockPostings ==
    {[in_process_at |-> [fmt |-> "iso_z", t |-> t], status |-> "delivered",
      offer_id |-> "X123", quantity |-> 3] : t \in ClockEventTimes}

EventLists ==
    UNION {[1..n -> ClockPostings] : n \in 1..MaxClockEvents}

\* The accumulators _aggregate_fbo and _aggregate_fbs start from.
FboAcc0 ==
    [day_counts_by_offer |-> EmptyMap,
     period_counts_by_col |-> [c \in DOMAIN PERIOD_COLUMNS_FBO |-> EmptyMap],
     delivered_counts_by_col |-> [c \in DOMAIN DELIVERED_COLUMNS_FBO |-> EmptyMap]]

FbsAcc0 ==
    [daily_total |-> EmptyMap,
     daily_by_offer |-> EmptyMap,
     totals_by_period |-> [d \in DOMAIN PERIOD_COLUMNS_FBS |-> EmptyMap],
     delivered_by_period |-> [d \in DOMAIN DELIVERED_COLUMNS_FBS |-> EmptyMap]]

\* The loop of _aggregate_fbo over the postings; run_started_msk is an argument.
RECURSIVE AggregateFbo(_, _, _)
AggregateFbo(acc, postings, run_started_msk) ==
    IF postings = <<>> THEN acc
    ELSE AggregateFbo(_aggregate_fbo(acc, Head(postings), run_started_msk),
                      Tail(postings), run_started_msk)

\* _aggregate_fbs(_prepare_fbs_orders(orders)); now_msk is datetime.now(MSK_TZ)
\* as _aggregate_fbs reads it in its first line.
RECURSIVE AggregateFbs(_, _, _)
AggregateFbs(acc, orders, now_msk) ==
    IF orders = <<>> THEN acc
    ELSE AggregateFbs(IF _prepare_fbs_orders(Head(orders)) = <<>> THEN acc
                      ELSE _aggregate_fbs(acc, _prepare_fbs_orders(Head(orders))[1], now_msk),
                      Tail(orders), now_msk)

\* The loop of _aggregate_by_offer; now is datetime.now(timezone.utc) as the
\* function reads it before the loop.
RECURSIVE AggregateByOffer(_, _, _)
AggregateByOffer(result, postings, now) ==
    IF postings = <<>> THEN result
    ELSE AggregateByOffer(_aggregate_by_offer(result, Head(postings), now),
                          Tail(postings), now)

\* strftime("%d.%m.%y") of the first day of the delivered period of `days` days.
StartPeriod(today, days) == today - (days - 1)

\* sync_orders_fbo_matrix: the clock is read once, at the top, and handed to
\* _aggregate_fbo and to the period-start labels.
FboMatrixJob(postings, run_started_utc) ==
    LET run_started_msk == ToMsk(run_started_utc)
    IN [agg |-> AggregateFbo(FboAcc0, postings, run_started_msk),
        date_headers |-> [i \in 1..DAYS_WINDOW |->
                             DayMonth(_build_date_headers(run_started_msk, DAYS_WINDOW)[i])],
        start_period |-> [c \in DOMAIN DELIVERED_COLUMNS_FBO |->
                             StartPeriod(DateOf(run_started_msk), DELIVERED_COLUMNS_FBO[c])]]

\* sync_orders_fbs_matrix: now_msk is read at the top and used for the
\* period-start labels; _aggregate_fbs reads the clock again, after the orders
\* were fetched, for the period windows and the day headers.
FbsMatrixJob(orders, now_utc, agg_clock) ==
    LET now0 == DateOf(ToMsk(agg_clock))
    IN [agg |-> AggregateFbs(FbsAcc0, orders, ToMsk(agg_clock)),
        dates |-> [i \in 1..DAYS_WINDOW |-> DayMonth(now0 - (DAYS_WINDOW - i))],
        start_period |-> [d \in DOMAIN DELIVERED_COLUMNS_FBS |->
                             StartPeriod(DateOf(ToMsk(now_utc)), d)]]

\* sync_orders_fbo_agg / sync_orders_fbs_agg: the only clock read that reaches
\* the result is the one inside _aggregate_by_offer.
AggJob(postings, agg_clock) == AggregateByOffer(EmptyMap, postings, agg_clock)

ClockInit ==
    /\ clock \in ClockStarts
    /\ events \in EventLists
    /\ callNo = 1
    /\ callStep = "idle"
    /\ runStarted = <<>>
    /\ outs = <<>>
    /\ StoreIdle
    /\ AggIdle
    /\ PipeIdle
    /\ PageIdle
    /\ RetryIdle
    /\ PollIdle
    /\ LateIdle

\* An hour passes.
Tick ==
    /\ clock < LastClock
    /\ clock' = clock + 1
    /\ UNCHANGED <<events, callNo, callStep, runStarted, outs>>
    /\ UNCHANGED <<storeVars, callVars, aggVars, pipeVars, pageVars, retryVars, pollVars, lateVars>>

\* The job reads the clock in its first lines and starts fetching.
OrdersBegin ==
    /\ callStep = "idle"
    /\ runStarted' = Append(runStarted, clock)
    /\ callStep' = "fetching"
    /\ UNCHANGED <<clock, events, callNo, outs>>
    /\ UNCHANGED <<storeVars, callVars, aggVars, pipeVars, pageVars, retryVars, pollVars, lateVars>>

\* The postings have arrived: the aggregators run and the rows are built.
OrdersAggregate ==
    /\ callStep = "fetching"
    /\ outs' = Append(outs, [fbo |-> FboMatrixJob(events, runStarted[callNo]),
                             fbs |-> FbsMatrixJob(events, runStarted[callNo], clock),
                             by_offer |-> AggJob(events, clock)])
    /\ callStep' = IF callNo = 2 THEN "done" ELSE "idle"
    /\ callNo' = IF callNo = 2 THEN callNo ELSE callNo + 1
    /\ UNCHANGED <<clock, events, runStarted>>
    /\ UNCHANGED <<storeVars, callVars, aggVars, pipeVars, pageVars, retryVars, pollVars, lateVars>>

ClockNext ==
    \/ Tick
    \/ OrdersBegin
    \/ OrdersAggregate

SpecClock == ClockInit /\ [][ClockNext]_vars

\* The "today" of a call: the Moscow date of the clock read at its top.
AnchorDate(k) == DateOf(ToMsk(runStarted[k]))

\* Both calls are over and started on the same Moscow date.
SameAnchorDate == Len(outs) = 2 /\ AnchorDate(1) = AnchorDate(2)

\* The FBO matrix job is a function of the postings and the anchor date.
FboMatrixDeterministic ==
    SameAnchorDate => outs[1].fbo = outs[2].fbo

\* C14: two calls of the window aggregation with the same events and the same
\* anchor date return identical output whatever the wall-clock time of each
\* call, and the day columns, period windows and period-start labels of one
\* run refer to the same "today" (the clock is not read again mid-run).
C14_FunctionOfEventsAndAnchorDate ==
    /\ SameAnchorDate => outs[1] = outs[2]
    /\ \A k \in 1..Len(outs) :
          /\ outs[k].fbs.dates[DAYS_WINDOW] = DayMonth(AnchorDate(k))
          /\ outs[k].fbs.start_period[30] = StartPeriod(AnchorDate(k), 30)
          /\ outs[k].fbo.date_headers[DAYS_WINDOW] = DayMonth(AnchorDate(k))


(***************************************************************************)
(* SpecPage: one paginated fetch against an upstream that answers each     *)
(* request with any page                                                   *)
(***************************************************************************)

\* Requests one fetch may issue before the model stops following it.
MaxRequests == 4

\* The `limit` of a request (1000, 500 or 100 in the code).
PageLimit == 2

\* The month ranges _collect_fbo_postings walks through.
Months == 2

CursorFetchers == {"list_products", "supply_order_list", "returns_list", "product_attributes"}
OffsetFetchers == {"_collect_postings", "_collect_fbo_postings", "_collect_fbs_orders"}

\* The last_id values of the upstream; "" is an absent or empty one (0 for
\* returns_list, whose last_id is the id of the last item of the page).
Cursors == {"", "c1", "c2"}

\* A page: its number of items, its last_id and its has_next flag.
Responses(f) ==
    IF f \in CursorFetchers
    THEN {[n |-> n, last_id |-> c, has_next |-> FALSE] :
            n \in {0, 1, PageLimit}, c \in Cursors}
    ELSE {[n |-> n, last_id |-> "", has_next |-> h] :
            n \in {0, 1, PageLimit}, h \in BOOLEAN}

\* The items of the k-th page received.
Batch(k, n) == [j \in 1..n |-> <<k, j>>]

\* The offset loops go on after every page that is not empty.
MorePages_while_nonempty(f, sent, resp) ==
    IF f \in OffsetFetchers THEN resp.n > 0
    ELSE resp.n > 0 /\ resp.last_id # ""

\* Whether the loop goes round again after page resp, the request having
\* carried last_id `sent`: the negation of the loop's break conditions.
MorePages(f, sent, resp) ==
    CASE f = "list_products" -> resp.n >= PageLimit /\ resp.last_id # ""
      [] f = "supply_order_list" ->
            resp.n > 0 /\ resp.last_id # "" /\ resp.last_id # sent /\ resp.n >= PageLimit
      [] f = "returns_list" -> resp.n > 0 /\ resp.last_id # ""
      [] f = "product_attributes" -> resp.last_id # "" /\ resp.n > 0
      [] f \in {"_collect_postings", "_collect_fbo_postings"} ->
            resp.n > 0 /\ resp.n >= PageLimit
      [] f = "_collect_fbs_orders" -> resp.n > 0 /\ resp.has_next

PageInit ==
    /\ fetcher \in CursorFetchers \cup OffsetFetchers
    /\ cursor = ""
    /\ offset = 0
    /\ month = 1
    /\ reqs = <<>>
    /\ resps = <<>>
    /\ items = <<>>
    /\ pState = "running"
    /\ StoreIdle
    /\ AggIdle
    /\ PipeIdle
    /\ ClockIdle
    /\ RetryIdle
    /\ PollIdle
    /\ LateIdle

\* One turn of a last_id loop: the request, the page, items.extend and the
\* break tests.
FetchByCursor ==
    /\ pState = "running"
    /\ fetcher \in CursorFetchers
    /\ Len(reqs) < MaxRequests
    /\ \E resp \in Responses(fetcher) :
        /\ reqs' = Append(reqs, [last_id |-> cursor, offset |-> offset, month |-> month])
        /\ resps' = Append(resps, resp)
        /\ items' = items \o Batch(Len(reqs) + 1, resp.n)
        /\ IF MorePages(fetcher, cursor, resp)
           THEN cursor' = resp.last_id /\ pState' = "running"
           ELSE cursor' = cursor /\ pState' = "returned"
    /\ UNCHANGED <<fetcher, offset, month>>
    /\ UNCHANGED <<storeVars, callVars, aggVars, pipeVars, clockVars, retryVars, pollVars, lateVars>>

\* One turn of an offset loop; _collect_fbo_postings starts the next month
\* range at offset 0 when the loop of a month breaks.
FetchByOffset ==
    /\ pState = "running"
    /\ fetcher \in OffsetFetchers
    /\ Len(reqs) < MaxRequests
    /\ \E resp \in Responses(fetcher) :
        /\ reqs' = Append(reqs, [last_id |-> cursor, offset |-> offset, month |-> month])
        /\ resps' = Append(resps, resp)
        /\ items' = items \o Batch(Len(reqs) + 1, resp.n)
        /\ IF MorePages(fetcher, cursor, resp)
           THEN offset' = offset + PageLimit /\ month' = month /\ pState' = "running"
           ELSE IF fetcher = "_collect_fbo_postings" /\ month < Months
                THEN offset' = 0 /\ month' = month + 1 /\ pState' = "running"
                ELSE offset' = offset /\ month' = month /\ pState' = "returned"
    /\ UNCHANGED <<fetcher, cursor>>
    /\ UNCHANGED <<storeVars, callVars, aggVars, pipeVars, clockVars, retryVars, pollVars, lateVars>>

PageNext ==
    \/ FetchByCursor
    \/ FetchByOffset

SpecPage == PageInit /\ [][PageNext]_vars

\* Page k carried the same, non-empty last_id as the page before it.
RepeatedCursor(k) ==
    k \in 2..Len(resps) /\ resps[k].last_id # "" /\ resps[k].last_id = resps[k - 1].last_id

\* supply_order_list compares the new last_id with the one it sent.
SupplyOrderListStopsOnRepeat ==
    fetcher = "supply_order_list" =>
        \A k \in 2..Len(resps) : RepeatedCursor(k) => Len(reqs) = k /\ pState = "returned"

\* C15: every last_id-paginated fetch stops as soon as the upstream returns the
\* same last_id on two consecutive calls: no request follows the repeated
\* last_id and the fetch returns, whatever the sizes of the pages.
C15_RepeatedCursorStops ==
    fetcher \in CursorFetchers =>
        \A k \in 2..Len(resps) : RepeatedCursor(k) => Len(reqs) = k /\ pState = "returned"

\* Requests k and k + 1 belong to the same offset loop.
SameLoop(k) == k < Len(reqs) /\ reqs[k + 1].month = reqs[k].month

\* The offset of request k: the limit times the requests of its loop before it.
OffsetsInOrder ==
    \A k \in 1..Len(reqs) :
        reqs[k].offset = PageLimit * Cardinality({j \in 1..(k - 1) : reqs[j].month = reqs[k].month})

\* flatten(pages): the pages received, one after the other.
RECURSIVE Concat(_)
Concat(k) == IF k = 0 THEN <<>> ELSE Concat(k - 1) \o Batch(k, resps[k].n)

ItemsArePagesReceived ==
    /\ items = Concat(Len(resps))
    /\ \A a, b \in 1..Len(items) : a # b => items[a] # items[b]

\* The loop is over for the month of page k.
LoopOver(k) ==
    \/ SameLoop(k) = FALSE /\ k < Len(reqs)
    \/ k = Len(reqs) /\ pState = "returned"

\* C16 as stated: an offset/limit fetch requests offsets 0, limit, 2*limit, ...
\* in order, stops at the first page that is empty, shorter than the limit or
\* whose has_next is absent or false, and returns the concatenation of the
\* pages received, each item once.
C16_OffsetPaginationStops ==
    fetcher \in OffsetFetchers =>
        /\ OffsetsInOrder
        /\ \A k \in 1..Len(resps) :
              SameLoop(k) => resps[k].n >= PageLimit /\ resps[k].has_next
        /\ ItemsArePagesReceived

\* C16, amended: the offsets are 0, limit, 2*limit, ... (from 0 again for each
\* month range of _collect_fbo_postings); _collect_postings and
\* _collect_fbo_postings go on exactly after a full page and do not look at
\* has_next, _collect_fbs_orders goes on exactly after a non-empty page with
\* has_next true and does not look at its length; the result is the
\* concatenation of the pages received, each item once.
C16_OffsetPaginationPerFetcher ==
    fetcher \in OffsetFetchers =>
        /\ OffsetsInOrder
        /\ \A k \in 1..Len(resps) :
              LET goes_on == IF fetcher = "_collect_fbs_orders"
                             THEN resps[k].n > 0 /\ resps[k].has_next
                             ELSE resps[k].n >= PageLimit
              IN /\ SameLoop(k) => goes_on
                 /\ LoopOver(k) => ~goes_on
        /\ ItemsArePagesReceived

\* _collect_postings asked for offsets 0, limit and 2*limit and returned after
\* a short third page.
C16_Witness ==
    /\ fetcher = "_collect_postings"
    /\ pState = "returned"
    /\ Len(reqs) = 3
    /\ reqs[3].offset = 2 * PageLimit
    /\ resps[3].n = 1
    /\ Len(items) = 2 * PageLimit + 1


(***************************************************************************)
(* SpecRetry: a job sends its page/batch requests through one of the three *)
(* HTTP wrappers; each attempt gets any outcome                            *)
(***************************************************************************)

\* Page/batch requests of the job.
Batches == 2

\* Retry(total=5) of services/ozon_client.py, MAX_RETRIES of legacy script 013
\* and of legacy script 021.
RETRY_TOTAL == 5
MAX_RETRIES_013 == 7
MAX_RETRIES_021 == 5

\* OzonClient.post of services/ozon_client.py, request_with_retries of
\* 013.Otmena_vozvrat.py, OzonClient.post of 021.FBS_ALL_ZAKAZ.py.
Clients == {"services", "legacy_013", "legacy_021"}

\* The outcome of an attempt: an HTTP status with the words of the response
\* body, or a network-level error (status 0).
Outcomes ==
    {[status |-> st, text |-> <<"{}">>] : st \in {0, 200, 429, 503}}
    \cup {[status |-> 400, text |-> t] : t \in {<<"{}">>, <<"code", "400", "returned">>}}

\* status_forcelist of Retry and the tuple both legacy wrappers test, and the
\* exceptions of the transport.
Transient(o) == o.status \in {0, 429, 500, 502, 503, 504}

NonRetryable4xx(o) == o.status \in 400..499 /\ o.status # 429

\* str(e) in the except clause of 021's post, word by word: the text of the
\* HTTPError the wrapper raised, or of the transport's exception.
Message021(o) ==
    IF o.status = 0 THEN <<"ConnectionError">>
    ELSE IF NonRetryable4xx(o)
         THEN <<ToString(o.status), "Bad", "Request.", "Response:">> \o o.text
         ELSE <<ToString(o.status)>> \o o.text

\* (" 400 " in msg): the word stands between two spaces.
InSpaces(word, msg) == \E k \in 2..(Len(msg) - 1) : msg[k] = word

\* The break test of 021's except clause.
Break021(msg) == \E c \in {"400", "401", "403", "404"} : InSpaces(c, msg)

\* A wrapper that never gives up on a transient outcome.
After_no_give_up(c, n, o) ==
    IF o.status = 200 THEN "ok" ELSE IF Transient(o) THEN "retry" ELSE "raise"

\* What wrapper c does with outcome o of its n-th attempt at a request: "ok"
\* (returns the JSON), "retry", "raise" (an exception leaves the wrapper) or
\* "empty" (returns an empty last page).
After(c, n, o) ==
    CASE c = "services" ->
            IF o.status = 200 THEN "ok"
            ELSE IF Transient(o) THEN (IF n <= RETRY_TOTAL THEN "retry" ELSE "raise")
            ELSE "raise"
      [] c = "legacy_013" ->
            IF o.status = 200 THEN "ok"
            ELSE IF Transient(o) THEN (IF n > MAX_RETRIES_013 THEN "empty" ELSE "retry")
            ELSE "raise"
      [] c = "legacy_021" ->
            IF o.status = 200 THEN "ok"
            ELSE IF Break021(Message021(o)) THEN "raise"
            ELSE IF n < MAX_RETRIES_021 THEN "retry" ELSE "raise"

RetryInit ==
    /\ client \in Clients
    /\ batchNo = 0
    /\ attempts = 0
    /\ lastResp = EmptyMap
    /\ got = <<>>
    /\ rState = "running"
    /\ StoreIdle
    /\ AggIdle
    /\ PipeIdle
    /\ ClockIdle
    /\ PageIdle
    /\ PollIdle
    /\ LateIdle

\* The wrapper and the job's loop handle outcome o of attempt n at request b.
Handle(b, n, o) ==
    LET what == After(client, n, o)
    IN /\ batchNo' = b
       /\ attempts' = n
       /\ lastResp' = o
       /\ got' = CASE what = "ok" -> Append(got, "items")
                   [] what = "empty" -> Append(got, "empty")
                   [] OTHER -> got
       /\ rState' = CASE what = "ok" -> IF b < Batches THEN "running" ELSE "returned"
                      [] what = "retry" -> "running"
                      [] what = "empty" -> "returned"
                      [] what = "raise" -> "raised"
       /\ UNCHANGED client
       /\ UNCHANGED <<storeVars, callVars, aggVars, pipeVars, clockVars, pageVars, pollVars, lateVars>>

\* The first attempt at the next page/batch request.
Send ==
    /\ rState = "running"
    /\ Len(got) = batchNo
    /\ \E o \in Outcomes : Handle(batchNo + 1, 1, o)

\* Another attempt at the same request.
Resend ==
    /\ rState = "running"
    /\ Len(got) < batchNo
    /\ \E o \in Outcomes : Handle(batchNo, attempts + 1, o)

RetryNext ==
    \/ Send
    \/ Resend

SpecRetry == RetryInit /\ [][RetryNext]_vars

\* The most attempts wrapper c makes at one request.
MaxAttempts(c) ==
    CASE c = "services" -> RETRY_TOTAL + 1
      [] c = "legacy_013" -> MAX_RETRIES_013 + 1
      [] c = "legacy_021" -> MAX_RETRIES_021

\* The request of lastResp is still open: another attempt will follow.
Pending == rState = "running" /\ Len(got) < batchNo

FailsAtOnceOn4xxExcept021 ==
    (client # "legacy_021" /\ lastResp # EmptyMap /\ NonRetryable4xx(lastResp)) =>
        rState = "raised"

\* C18: when the API answers a request with a 4xx status other than 429, the
\* client makes no further attempt for that request and reports the failure
\* immediately.
C18_NoRetryOn4xx ==
    (lastResp # EmptyMap /\ NonRetryable4xx(lastResp)) => rState = "raised"

\* The retries of the request of lastResp were used up on transient outcomes.
Exhausted ==
    lastResp # EmptyMap /\ Transient(lastResp) /\ attempts = MaxAttempts(client)

\* C19: when the retries of one page/batch request are exhausted on transient
\* errors, that page/batch contributes an empty result and the owning job goes
\* on with its remaining pages/batches and writes what it collected; the job
\* is not aborted.
C19_ExhaustedYieldsEmpty ==
    Exhausted =>
        /\ rState # "raised"
        /\ Len(got) = batchNo
        /\ got[batchNo] = "empty"
        /\ batchNo < Batches => rState = "running"


(***************************************************************************)
(* SpecPoll: waiting for the placement report after it was created         *)
(***************************************************************************)

\* max_wait_seconds of wait_report_ready, in poll intervals (600 s / 5 s in the
\* script).
MaxWait == 3

\* The longest a request of info(code) takes, in poll intervals.
MaxLatency == 1

\* sync_storage of services/extra_sync.py and wait_report_ready of
\* legacy_scripts/010.Hranenie.py.
Pollers == {"sync_storage", "wait_report_ready"}

\* The result of info(code): the status and whether a file link is there.
InfoAnswers ==
    {[status |-> st, file |-> FALSE] : st \in {"waiting", "processing", "failed", "error", "success"}}
    \cup {[status |-> "success", file |-> TRUE]}

PollInit ==
    /\ poller \in Pollers
    /\ statuses = <<>>
    /\ elapsed = 0
    /\ pollState = "polling"
    /\ StoreIdle
    /\ AggIdle
    /\ PipeIdle
    /\ ClockIdle
    /\ PageIdle
    /\ RetryIdle
    /\ LateIdle

\* sync_storage: one report_info call; without a file link the job returns.
InfoOnce ==
    /\ poller = "sync_storage"
    /\ pollState = "polling"
    /\ \E a \in InfoAnswers, d \in 0..MaxLatency :
        /\ statuses' = Append(statuses, a)
        /\ elapsed' = elapsed + d
        /\ pollState' = IF a.file THEN "got_file" ELSE "no_data"
    /\ UNCHANGED poller
    /\ UNCHANGED <<storeVars, callVars, aggVars, pipeVars, clockVars, pageVars, retryVars, lateVars>>

\* One turn of the loop of wait_report_ready: the request, the tests on the
\* status and on the time waited, the sleep.
Poll ==
    /\ poller = "wait_report_ready"
    /\ pollState = "polling"
    /\ \E a \in InfoAnswers, d \in 0..MaxLatency :
        /\ statuses' = Append(statuses, a)
        /\ IF a.status = "success"
           THEN /\ pollState' = IF a.file THEN "got_file" ELSE "failed"
                /\ elapsed' = elapsed + d
           ELSE IF a.status \in {"failed", "error"} \/ elapsed + d > MaxWait
           THEN /\ pollState' = "failed"
                /\ elapsed' = elapsed + d
           ELSE /\ pollState' = "polling"
                /\ elapsed' = elapsed + d + 1
    /\ UNCHANGED poller
    /\ UNCHANGED <<storeVars, callVars, aggVars, pipeVars, clockVars, pageVars, retryVars, lateVars>>

PollNext ==
    \/ InfoOnce
    \/ Poll

SpecPoll == PollInit /\ [][PollNext]_vars

\* The last answer of info(code).
LastInfo == statuses[Len(statuses)]

\* The three outcomes of the wait, and polling until one of them.
PollsUntilOutcome ==
    statuses # <<>> =>
        /\ pollState = "got_file" => LastInfo.status = "success" /\ LastInfo.file
        /\ LastInfo.status \in {"failed", "error"} => pollState = "failed"
        /\ (LastInfo.status \notin {"success", "failed", "error"} /\ elapsed <= MaxWait) =>
              pollState = "polling"
        /\ pollState # "no_data"

\* wait_report_ready of the legacy script polls as described.
WaitReportReadyPolls == poller = "wait_report_ready" => PollsUntilOutcome

\* C20: after a file report is created the client polls info(code) until the
\* status is success (the file URL is returned), failed or error (the job
\* fails) or the wall-clock timeout is exceeded (the job fails); while the
\* status is anything else within the timeout it keeps polling, and it never
\* ends the job silently with no data because the report was still processing.
C20_PollsUntilOutcome == poller \in Pollers => PollsUntilOutcome

(***************************************************************************)
(* SpecFanout: the packed *_cluster query of the stock script and its      *)
(* fallback (legacy_scripts/007.FBO_Upravlenie_stocks_28.py)               *)
(***************************************************************************)

MaxClusterId == 2

\* SINGLE_CLUSTER_CELLS_ORDERED, the first three of its seven cells.
SINGLE_CLUSTER_CELLS_ORDERED == <<"CK2", "CO2", "CS2">>

\* ordered_cells
OrderedCells == {SINGLE_CLUSTER_CELLS_ORDERED[i] : i \in DOMAIN SINGLE_CLUSTER_CELLS_ORDERED}

\* get_single_cluster_ids_batch: per cell the integer found in it, or None (0).
CellReadings == [OrderedCells -> 0..MaxClusterId]

\* tasks: the cells that hold a cluster id (each with its id, idByCell[cell]).
Tasks(ids) == {cell \in OrderedCells : ids[cell] # 0}

\* union_ids
UnionIds(ids) == {ids[cell] : cell \in Tasks(ids)}

FanInit ==
    /\ idByCell \in CellReadings
    /\ fanHasField = ""
    /\ fanQueries = <<>>
    /\ fanPending = {}
    /\ fanBlocks = [cell \in OrderedCells |-> ""]
    /\ fanState = "start"
    /\ NotFanIdle

\* _fetch_single_cluster_blocks_parallel up to the fallback: no query without
\* tasks; otherwise one packed get_stocks_data over union_ids, whose items are
\* split by cluster_id when any item carries that field.
PackedQuery ==
    /\ fanState = "start"
    /\ IF Tasks(idByCell) = {}
       THEN /\ fanState' = "done"
            /\ UNCHANGED <<fanHasField, fanQueries, fanPending, fanBlocks>>
       ELSE /\ fanQueries' = Append(fanQueries, [kind |-> "packed", cluster_ids |-> UnionIds(idByCell)])
            /\ \E has_cluster_id \in BOOLEAN :
                IF has_cluster_id
                THEN /\ fanHasField' = "yes"
                     /\ fanBlocks' = [cell \in OrderedCells |->
                                        IF cell \in Tasks(idByCell) THEN "packed" ELSE ""]
                     /\ fanPending' = {}
                     /\ fanState' = "done"
                ELSE /\ fanHasField' = "no"
                     /\ fanPending' = Tasks(idByCell)
                     /\ fanState' = "fallback"
                     /\ UNCHANGED fanBlocks
    /\ UNCHANGED idByCell
    /\ UNCHANGED notFanVars

\* The fallback: one get_stocks_data(skus, [cid]) per task (cell, cid), run by
\* the thread pool in any order; a call that raises leaves the cell's block
\* empty. The function returns after the last one.
SingleQuery ==
    /\ fanState = "fallback"
    /\ \E cell \in fanPending, raised \in BOOLEAN :
        /\ fanQueries' = Append(fanQueries, [kind |-> "single", cluster_ids |-> {idByCell[cell]}])
        /\ fanBlocks' = [fanBlocks EXCEPT ![cell] = IF raised THEN "" ELSE "single"]
        /\ fanPending' = fanPending \ {cell}
        /\ fanState' = IF fanPending \ {cell} = {} THEN "done" ELSE "fallback"
    /\ UNCHANGED <<idByCell, fanHasField>>
    /\ UNCHANGED notFanVars

FanNext == PackedQuery \/ SingleQuery

SpecFanout == FanInit /\ [][FanNext]_vars

\* The fallback queries made for cluster id cid.
SingleQueriesFor(cid) ==
    {i \in DOMAIN fanQueries :
        fanQueries[i].kind = "single" /\ fanQueries[i].cluster_ids = {cid}}

\* C21: when the items of the packed multi-cluster query carry no cluster_id,
\* the packed result is not used and, once the function has returned, exactly
\* one query has been made for each requested cluster id: none was skipped and
\* none was queried twice.
C21_OneQueryPerClusterValue ==
    fanState = "done" /\ fanHasField = "no" =>
        /\ \A cell \in OrderedCells : fanBlocks[cell] # "packed"
        /\ \A cid \in UnionIds(idByCell) : Cardinality(SingleQueriesFor(cid)) = 1

(***************************************************************************)
(* SpecSlot: the cluster slots of sync_stocks_analytics_full               *)
(* (extra_sync.py, models.py OzonClusterSlot)                              *)
(***************************************************************************)

MaxSlotCalls == 3
MaxSlotCluster == 3

\* cluster_cols and single_slots of sync_stocks_analytics_full, the first
\* three and the first two codes of each list.
SlotCodeLists == {<<"AM", "AN", "AO">>, <<"CK2", "CO2">>}

\* The elements of a sequence.
Range(seq) == {seq[i] : i \in DOMAIN seq}

\* cluster_list("CLUSTER_TYPE_OZON") + cluster_list("CLUSTER_TYPE_CIS"), as the
\* list `ids`: any clusters, in any order.
ClusterLists ==
    {ids \in UNION {[1..n -> 1..MaxSlotCluster] : n \in 0..MaxSlotCluster} :
        \A i, j \in DOMAIN ids : i # j => ids[i] # ids[j]}

\* shop.ozon_cluster_slots.filter(code__in=codes)
StoredSlots(table, codes) == [code \in DOMAIN table \cap Range(codes) |-> table[code]]

\* zip(codes, fill_ids): the positions paired.
Zipped(codes, ids) == {i \in DOMAIN codes : i <= Len(ids)}

\* The dict `slots` after the loop: slots.setdefault(code, cid) for each pair.
FilledSlots(slots, codes, ids) ==
    [code \in DOMAIN slots \cup {codes[i] : i \in Zipped(codes, ids)} |->
        IF code \in DOMAIN slots THEN slots[code]
        ELSE ids[CHOOSE i \in Zipped(codes, ids) : codes[i] = code]]

\* The table after the loop: update_or_create(shop, code, defaults={cluster_id: cid})
\* for each pair, which rewrites the row of a code that has one.
UpdateOrCreateSlots(table, codes, ids) ==
    [code \in DOMAIN table \cup {codes[i] : i \in Zipped(codes, ids)} |->
        IF \E i \in Zipped(codes, ids) : codes[i] = code
        THEN ids[CHOOSE i \in Zipped(codes, ids) : codes[i] = code]
        ELSE table[code]]

SlotInit ==
    /\ slotTable = EmptyMap
    /\ slotFirst = EmptyMap
    /\ slotReturned = EmptyMap
    /\ slotCodes = <<>>
    /\ slotCalls = 0
    /\ NotSlotIdle

\* _get_cluster_slot_map(shop, codes): the stored slots when every code has
\* one; otherwise the cluster list is fetched and paired with the codes.
GetClusterSlotMap ==
    /\ slotCalls < MaxSlotCalls
    /\ \E codes \in SlotCodeLists, ids \in ClusterLists :
        LET slots == StoredSlots(slotTable, codes)
            complete == Cardinality(DOMAIN slots) = Len(codes)
            table == IF complete THEN slotTable ELSE UpdateOrCreateSlots(slotTable, codes, ids)
        IN  /\ slotCodes' = codes
            /\ slotReturned' = IF complete THEN slots ELSE FilledSlots(slots, codes, ids)
            /\ slotTable' = table
            /\ slotFirst' = [code \in DOMAIN table |->
                                IF code \in DOMAIN slotFirst THEN slotFirst[code] ELSE table[code]]
    /\ slotCalls' = slotCalls + 1
    /\ UNCHANGED notSlotVars

SlotNext == GetClusterSlotMap

SpecSlot == SlotInit /\ [][SlotNext]_vars

\* C22: a slot code once bound to a cluster id stays bound to it: the stored
\* slot table keeps the binding and every call of the lookup returns that
\* cluster id for the code, whatever the cluster list answered later.
C22_SlotBindingStable ==
    \A code \in DOMAIN slotFirst :
        /\ slotTable[code] = slotFirst[code]
        /\ code \in DOMAIN slotReturned => slotReturned[code] = slotFirst[code]

(***************************************************************************)
(* SpecCols: arbitrary ensure_columns calls on one report (reporting.py)   *)
(***************************************************************************)

ColKeys == {"A", "B"}

\* The (label, order, data_type) of a column or of a definition.
ColumnRecords == [label : {"x", "y"}, order : {10, 20}, data_type : {"text", "number"}]

\* The columns a report may hold, and the `columns` argument of a call.
Definitions == Dicts(ColKeys, ColumnRecords)

\* Any report state; `before` is the table before the last call, `lastUpd` the
\* definitions of the last call, `expect` the fields it saved per existing key.
ColsInit ==
    /\ rows = [c \in {TestReport} |-> EmptyMap]
    /\ columns \in [{TestReport} -> Definitions]
    /\ lastUpd = EmptyMap
    /\ before = columns[TestReport]
    /\ sameAsPrev = FALSE
    /\ expect = EmptyMap
    /\ AggIdle
    /\ PipeIdle
    /\ ExtIdle

EnsureColumnsCall ==
    \E defs \in Definitions :
        /\ columns' = [columns EXCEPT ![TestReport] = ensure_columns(@, defs)]
        /\ before' = columns[TestReport]
        /\ lastUpd' = defs
        /\ sameAsPrev' = (defs = lastUpd /\ defs # EmptyMap)
        /\ expect' = [k \in DOMAIN defs \cap DOMAIN columns[TestReport] |->
                        ColumnUpdates(columns[TestReport][k], defs[k])]
        /\ UNCHANGED rows
        /\ UNCHANGED <<aggVars, pipeVars, extVars>>

ColsNext == EnsureColumnsCall

SpecCols == ColsInit /\ [][ColsNext]_vars

\* C23: from every report state, a second ensure_columns call with the same
\* definitions leaves every column as the first call left it (one column per
\* key, same label, order and data_type); a call creates a column only for a
\* key that was absent, saves only the fields that differ from the definition,
\* and removes no column.
C23_EnsureColumnsIdempotent ==
    LET now == columns[TestReport] IN
    /\ sameAsPrev => now = before /\ \A k \in DOMAIN expect : expect[k] = {}
    /\ \A defs \in Definitions :
            ensure_columns(ensure_columns(now, defs), defs) = ensure_columns(now, defs)
    /\ DOMAIN before \subseteq DOMAIN now
    /\ DOMAIN now \ DOMAIN before = DOMAIN lastUpd \ DOMAIN before
    /\ \A k \in DOMAIN lastUpd : now[k] = lastUpd[k]
    /\ \A k \in DOMAIN before :
        /\ k \notin DOMAIN lastUpd => now[k] = before[k]
        /\ k \in DOMAIN lastUpd =>
            \A f \in ColumnFields :
                /\ f \in expect[k] <=> before[k][f] # lastUpd[k][f]
                /\ f \notin expect[k] => now[k][f] = before[k][f]

\* The same definition of column A was given twice in a row to a report that
\* holds a column B the definitions do not name; the second call saved nothing.
C23_Witness ==
    /\ sameAsPrev
    /\ DOMAIN lastUpd = {"A"}
    /\ "B" \in DOMAIN columns[TestReport]
    /\ expect["A"] = {}

(***************************************************************************)
(* The identifier lists the secondary jobs read from the catalog report    *)
(***************************************************************************)

\* C27: once sync_monitor has stored a row that carries an offer id, a product
\* id and a SKU, the identifier lists the secondary jobs read from the
\* 'monitor' report hold them: the product id for sync_price_logistics, the
\* SKU for the stock and supply jobs, the offer id for the order-matrix and
\* old-year jobs.
C27_JobsReadCatalogIds ==
    \A rk \in DOMAIN catalogRows :
        Has(catalogRows[rk], "B") /\ Has(catalogRows[rk], "L") /\ Has(catalogRows[rk], "K") =>
            /\ catalogRows[rk].data["L"] \in MonitorIds(rows, "product_id")
            /\ catalogRows[rk].data["K"] \in MonitorIds(rows, "sku")
            /\ catalogRows[rk].data["B"] \in MonitorIds(rows, "offer_id")

(***************************************************************************)
(* SpecCatalog: repeated runs of sync_monitor (stages 1 and 2), of a       *)
(* secondary job and of the merge, against a product list that changes     *)
(* between runs                                                            *)
(***************************************************************************)

MaxRuns == 2

\* The products of the shop over time: product 1 may change its offer id,
\* product 2 may get one.
CatalogProducts ==
    {P1, [P1 EXCEPT !.offer_id = "Y123"], P2, [P2 EXCEPT !.offer_id = "Z9"]}

\* What list_products may return to a run: each product once at most.
ProductLists ==
    {ps \in SUBSET CatalogProducts :
        \A p, q \in ps : p.product_id = q.product_id => p = q}

\* The place of a string in the order of the strings of the model.
Rank(str) ==
    CASE str = "" -> 0 [] str = "1" -> 1 [] str = "2" -> 2
      [] str = "X123" -> 3 [] str = "Y123" -> 4 [] str = "Z9" -> 5 [] OTHER -> 6

\* report.rows.all() yields row a before row b (ordering = sort_key, row_key).
RowBefore(reportRows, a, b) ==
    \/ Rank(reportRows[a].sort_key) < Rank(reportRows[b].sort_key)
    \/ /\ reportRows[a].sort_key = reportRows[b].sort_key
       /\ Rank(a) < Rank(b)

\* product_id_to_key: per product id the last row, in the order of the query,
\* that carries it under L.
product_id_to_key(reportRows) ==
    [pid \in {reportRows[rk].data["L"] : rk \in KeysWith(reportRows, "L")} |->
        CHOOSE rk \in KeysWith(reportRows, "L") :
            /\ reportRows[rk].data["L"] = pid
            /\ \A other \in KeysWith(reportRows, "L") \ {rk} :
                    reportRows[other].data["L"] = pid => RowBefore(reportRows, other, rk)]

\* info_rows of stage 2: one row per product id of the index, under its key.
InfoRows(reportRows) ==
    [rk \in {product_id_to_key(reportRows)[pid] : pid \in DOMAIN product_id_to_key(reportRows)} |->
        [x \in MonitorStages[2].keys |->
            IF x = "K" THEN SkuOf(reportRows[rk].data["L"]) ELSE "v"]]

CatInit ==
    /\ rows = EmptyMap
    /\ columns = EmptyMap
    /\ lastUpd = EmptyMap
    /\ before = EmptyMap
    /\ sameAsPrev = FALSE
    /\ expect = EmptyMap
    /\ catRuns = 0
    /\ catStage = "idle"
    /\ catProducts = {}
    /\ NotCatIdle

\* sync_monitor up to the upsert_rows of stage 1.
CatalogList ==
    /\ catStage = "idle"
    /\ catRuns < MaxRuns
    /\ \E products \in ProductLists :
        /\ catProducts' = products
        /\ rows' = [get_or_create_report(rows, "monitor") EXCEPT
                        !["monitor"] = upsert_rows(@, ProductRows(products))]
    /\ columns' = [get_or_create_report(columns, "monitor") EXCEPT
                        !["monitor"] = ensure_columns(@, ColumnDefs(_monitor_columns))]
    /\ catRuns' = catRuns + 1
    /\ catStage' = "listed"
    /\ UNCHANGED notCatVars

\* The index build and stage 2 of sync_monitor.
CatalogInfo ==
    /\ catStage = "listed"
    /\ rows' = [rows EXCEPT !["monitor"] = upsert_rows(@, InfoRows(@))]
    /\ catStage' = "idle"
    /\ UNCHANGED <<columns, catRuns, catProducts>>
    /\ UNCHANGED notCatVars

\* sync_storage: the rows of the report items, none when the report is empty.
CatalogJob ==
    /\ catStage = "idle"
    /\ \E skus \in SUBSET Items("sync_storage", 1) :
        LET def == JobDef("sync_storage")
            store == get_or_create_report(rows, def.report)
        IN  /\ rows' = IF skus = {} THEN store
                       ELSE [store EXCEPT ![def.report] =
                                upsert_rows(@, JobRows("sync_storage", store, skus))]
            /\ columns' = [get_or_create_report(columns, def.report) EXCEPT
                                ![def.report] = ensure_columns(@, ColumnDefs(JobColumns("sync_storage")))]
    /\ UNCHANGED <<catRuns, catStage, catProducts>>
    /\ UNCHANGED notCatVars

\* merge_monitor_reports
CatalogMerge ==
    /\ catStage = "idle"
    /\ LET store == get_or_create_report(rows, "monitor")
           merged == MergedUpTo(store, Len(MergeSteps))
       IN rows' = IF merged # EmptyMap
                  THEN [store EXCEPT !["monitor"] = upsert_rows(@, merged)]
                  ELSE store
    /\ columns' = [get_or_create_report(columns, "monitor") EXCEPT
                        !["monitor"] = ensure_columns(@, ColumnDefs(_monitor_columns))]
    /\ UNCHANGED <<catRuns, catStage, catProducts>>
    /\ UNCHANGED notCatVars

CatNext == CatalogList \/ CatalogInfo \/ CatalogJob \/ CatalogMerge

SpecCatalog == CatInit /\ [][CatNext]_vars

\* C25: no step of a sync or merge run deletes a row: every report keeps every
\* row_key it has, also when the product of a row is no longer in the list the
\* upstream returns.
C25_RowKeysOnlyGrow ==
    [][\A code \in DOMAIN rows :
            /\ code \in DOMAIN rows'
            /\ DOMAIN rows[code] \subseteq DOMAIN rows'[code]]_vars

\* The second run got a product list without product 1, and the row the first
\* run created for it is still in the monitor report.
C25_Witness ==
    /\ catRuns = 2
    /\ catStage = "idle"
    /\ \A p \in catProducts : p.product_id # P1.product_id
    /\ "X123" \in DOMAIN rows["monitor"]
    /\ Has(rows["monitor"]["X123"], "K")

\* C28: the monitor report holds one row per product at most: after any
\* sequence of sync_monitor runs no two rows carry the same product id under
\* L, also when the offer id of a product changes or appears between runs.
C28_OneRowPerProduct ==
    "monitor" \in DOMAIN rows =>
        \A a, b \in KeysWith(rows["monitor"], "L") :
            rows["monitor"][a].data["L"] = rows["monitor"][b].data["L"] => a = b

(***************************************************************************)
(* SpecChunk: the requests that carry an array of identifiers              *)
(* (ozon_client.py, monitor_sync.py)                                       *)
(***************************************************************************)

\* The chunk size `limit` of the client (1000 in the code), scaled down.
ChunkLimit == 2
MaxIds == 4

\* The calls that loop over chunks of `limit` identifiers, and the calls that
\* put the whole list into one request.
ChunkedCalls == {"product_info_list", "product_stocks"}
WholeListCalls == {"analytics_stocks", "rating_by_sku"}

\* The identifier lists a caller passes: never empty (the callers return before
\* the call when they have no identifier).
IdLists == UNION {[1..n -> 1..3] : n \in 1..MaxIds}

ChunkInit ==
    /\ chunkFn \in ChunkedCalls \cup WholeListCalls
    /\ chunkIds \in IdLists
    /\ chunkSent = <<>>
    /\ chunkState = "sending"
    /\ NotChunkIdle

\* The arrays of a list of requests, one after the other.
RECURSIVE Flatten(_)
Flatten(arrays) ==
    IF arrays = <<>> THEN <<>> ELSE arrays[1] \o Flatten(Tail(arrays))

\* The identifiers already sent.
SentSoFar == Flatten(chunkSent)

\* One pass of `for i in range(0, len(ids), limit)`: chunk = ids[i:i + limit].
SendChunk ==
    /\ chunkState = "sending"
    /\ chunkFn \in ChunkedCalls
    /\ LET i == Len(SentSoFar)
           last == IF i + ChunkLimit < Len(chunkIds) THEN i + ChunkLimit ELSE Len(chunkIds)
       IN  /\ chunkSent' = Append(chunkSent, SubSeq(chunkIds, i + 1, last))
           /\ chunkState' = IF last = Len(chunkIds) THEN "returned" ELSE "sending"
    /\ UNCHANGED <<chunkFn, chunkIds>>
    /\ UNCHANGED notChunkVars

\* analytics_stocks and the rating-by-sku request of sync_monitor: one request
\* whose array is the whole list.
SendWholeList ==
    /\ chunkState = "sending"
    /\ chunkFn \in WholeListCalls
    /\ chunkSent' = Append(chunkSent, chunkIds)
    /\ chunkState' = "returned"
    /\ UNCHANGED <<chunkFn, chunkIds>>
    /\ UNCHANGED notChunkVars

ChunkNext == SendChunk \/ SendWholeList

SpecChunk == ChunkInit /\ [][ChunkNext]_vars

\* C26: every request that takes an array of identifiers carries ChunkLimit of
\* them at most, and when the call has returned every identifier of the input
\* has been sent in exactly one request, in input order.
C26_ChunksBoundedAndComplete ==
    /\ \A i \in DOMAIN chunkSent : Len(chunkSent[i]) <= ChunkLimit
    /\ chunkState = "returned" => SentSoFar = chunkIds

(***************************************************************************)
(* SpecRace: two sync_shop tasks of one shop run on two workers and call   *)
(* upsert_rows on the same report (reporting.py, shops/signals.py,         *)
(* tasks.py)                                                               *)
(***************************************************************************)

\* The workers, and the column each one's job writes.
Workers == {"w1", "w2"}
ColumnOf(w) == IF w = "w1" THEN "col1" ELSE "col2"

\* The rows argument of a worker's call: its column, for one row or both.
WorkerUpdates(w) ==
    {[rk \in ks |-> [c \in {ColumnOf(w)} |-> w]] : ks \in (SUBSET RowKeys) \ {{}}}

\* The report before the calls: empty, or with rows written by an earlier job.
RaceStores ==
    {[rk \in ks |-> [data |-> [c \in {"col0"} |-> "0"], sort_key |-> ""]] : ks \in SUBSET RowKeys}

RaceInit ==
    /\ rows \in [{TestReport} -> RaceStores]
    /\ columns = [c \in {TestReport} |-> EmptyMap]
    /\ lastUpd = EmptyMap
    /\ before = EmptyMap
    /\ sameAsPrev = FALSE
    /\ expect = EmptyMap
    /\ racePc = [w \in Workers |-> "start"]
    /\ raceSnap = [w \in Workers |-> EmptyMap]
    /\ raceUpd \in [Workers -> UNION {WorkerUpdates(w) : w \in Workers}]
    /\ \A w \in Workers : raceUpd[w] \in WorkerUpdates(w)
    /\ NotRaceIdle

\* existing = {r.row_key: r for r in report.rows.all()}
RaceRead ==
    \E w \in Workers :
        /\ racePc[w] = "start"
        /\ raceSnap' = [raceSnap EXCEPT ![w] = rows[TestReport]]
        /\ racePc' = [racePc EXCEPT ![w] = "read"]
        /\ UNCHANGED <<rows, columns, raceUpd>>
        /\ UNCHANGED notRaceVars

\* The rest of upsert_rows: the rows merged with what was read, bulk_create of
\* the rows that were not there (the unique (report, row_key) constraint
\* rejects the batch when one of them has been created meanwhile, and the call
\* raises), then bulk_update of data and sort_key of the rows that were.
RaceWrite ==
    \E w \in Workers :
        /\ racePc[w] = "read"
        /\ LET to_create == DOMAIN raceUpd[w] \ DOMAIN raceSnap[w]
           IN IF to_create \cap DOMAIN rows[TestReport] # {}
              THEN /\ racePc' = [racePc EXCEPT ![w] = "raised"]
                   /\ UNCHANGED rows
              ELSE /\ racePc' = [racePc EXCEPT ![w] = "done"]
                   /\ rows' = [rows EXCEPT ![TestReport] =
                                [rk \in DOMAIN @ \cup DOMAIN raceUpd[w] |->
                                    IF rk \in DOMAIN raceUpd[w]
                                    THEN upsert_rows(raceSnap[w], raceUpd[w])[rk]
                                    ELSE @[rk]]]
        /\ UNCHANGED <<columns, raceSnap, raceUpd>>
        /\ UNCHANGED notRaceVars

RaceNext == RaceRead \/ RaceWrite

SpecRace == RaceInit /\ [][RaceNext]_vars

\* C29: when two jobs run in parallel and upsert disjoint column keys into the
\* same row of a report, then in every interleaving of their upsert_rows calls,
\* once both calls are over, the row holds the columns of both jobs.
C29_NoLostUpdate ==
    (\A w \in Workers : racePc[w] \in {"done", "raised"}) =>
        \A w \in Workers : \A rk \in DOMAIN raceUpd[w] :
            /\ rk \in DOMAIN rows[TestReport]
            /\ ColumnOf(w) \in DOMAIN rows[TestReport][rk].data

(***************************************************************************)
(* The keys of the stored rows against the declared columns                *)
(***************************************************************************)

\* C30: in every reachable store state every key of a stored row's data is the
\* key of a column declared for the row's report; a sort_key passed in an
\* update is stored in the sort_key field of the row only, never in its data.
C30_DataKeysAreDeclaredColumns ==
    \A code \in DOMAIN rows : \A rk \in DOMAIN rows[code] :
        /\ code \in DOMAIN columns
        /\ DOMAIN rows[code][rk].data \subseteq DOMAIN columns[code]
        /\ "sort_key" \notin DOMAIN rows[code][rk].data

=============================================================================
